---------------------------- MODULE Spec2Model ----------------------------
(***************************************************************************)
(* Entity Observation & Resolution Engine of koi-research.                 *)
(*                                                                         *)
(*   src/entity-deduplication-system.py          EntityDeduplicator,       *)
(*                                               RelationshipDeduplicator  *)
(*   src/extractors/provenance-tracking-system.py  ProvenanceTracker       *)
(*                                                                         *)
(* Conventions.                                                            *)
(*   - A Python str that the code inspects character by character (an      *)
(*     entity name) is a sequence of one-character strings.  Opaque        *)
(*     strings (types, property values, document names, ids) are TLA+      *)
(*     strings.                                                            *)
(*   - A similarity score or threshold is an integer number of 1/Scale:    *)
(*     the float x is floor(Scale * x).  Thresholds are on that grid, so   *)
(*     `score >= threshold' is decided exactly as on the floats.           *)
(*   - A Python dict is a function whose DOMAIN is its key set.            *)
(*   - A property value is a record [list, v]: a scalar string s is        *)
(*     [list |-> FALSE, v |-> {s}] (the empty string has v = {}), a list   *)
(*     is [list |-> TRUE, v |-> the set of its items].                     *)
(*                                                                         *)
(* Specifications.                                                         *)
(*   Spec      one EntityDeduplicator, or one ProvenanceTracker, driven by  *)
(*             any sequence of calls                                       *)
(*   SpecRel   one RelationshipDeduplicator and the dicts its caller holds *)
(*   SpecNorm  normalize_name applied once and twice                       *)
(*   SpecDet   two runs, each adding one entity to a new registry          *)
(*   SpecMono  one input sequence under two thresholds                     *)
(*   SpecThreads  one ProvenanceTracker shared by a thread that calls      *)
(*             record_observation and create_canonical_entity, the latter  *)
(*             one store at a time, and a thread that reads provenance     *)
(*   SpecDedup one EntityDeduplicator driven by longer sequences of        *)
(*             add_entity calls, of fewer entities                         *)
(*   SpecCoref resolve_coreferences applied to a batch of entities         *)
(***************************************************************************)
EXTENDS Integers, Sequences, FiniteSets, TLC

(***************************************************************************)
(* Characters and strings                                                  *)
(***************************************************************************)

\* str.lower() on the characters of the model: the ASCII upper-case letters.
UpperToLower ==
  [A |-> "a", B |-> "b", C |-> "c", D |-> "d", E |-> "e", F |-> "f",
   G |-> "g", H |-> "h", I |-> "i", J |-> "j", K |-> "k", L |-> "l",
   M |-> "m", N |-> "n", O |-> "o", P |-> "p", Q |-> "q", R |-> "r",
   S |-> "s", T |-> "t", U |-> "u", V |-> "v", W |-> "w", X |-> "x",
   Y |-> "y", Z |-> "z"]

LowerChar(c) == IF c \in DOMAIN UpperToLower THEN UpperToLower[c] ELSE c

Lower(s) == [i \in 1..Len(s) |-> LowerChar(s[i])]

\* Python's \s on the characters of the model.
WhiteSpace == {" ", "\t"}

\* Python's \w on the characters of the model (after lower-casing).
WordChars ==
  {"a", "b", "c", "d", "e", "f", "g", "h", "i", "j", "k", "l", "m", "n",
   "o", "p", "q", "r", "s", "t", "u", "v", "w", "x", "y", "z",
   "0", "1", "2", "_"} \cup DOMAIN UpperToLower

\* s[a..b], empty when a > b.
Slice(s, a, b) == IF a > b THEN <<>> ELSE [i \in 1..(b - a + 1) |-> s[a + i - 1]]

RECURSIVE FilterChars(_, _)
\* The characters of s that are in keep, in order.
FilterChars(s, keep) ==
  IF s = <<>> THEN <<>>
  ELSE IF Head(s) \in keep THEN <<Head(s)>> \o FilterChars(Tail(s), keep)
       ELSE FilterChars(Tail(s), keep)

RECURSIVE SplitFrom(_, _, _)
\* str.split(): the maximal runs of non-whitespace characters of s, in
\* order.  cur is the run being read, i the next position.
SplitFrom(s, i, cur) ==
  IF i > Len(s) THEN (IF cur = <<>> THEN <<>> ELSE <<cur>>)
  ELSE IF s[i] \in WhiteSpace
       THEN (IF cur = <<>> THEN <<>> ELSE <<cur>>) \o SplitFrom(s, i + 1, <<>>)
       ELSE SplitFrom(s, i + 1, Append(cur, s[i]))

Split(s) == SplitFrom(s, 1, <<>>)

RECURSIVE JoinSpace(_)
\* ' '.join(words)
JoinSpace(words) ==
  IF words = <<>> THEN <<>>
  ELSE IF Len(words) = 1 THEN words[1]
       ELSE words[1] \o <<" ">> \o JoinSpace(Tail(words))

RECURSIVE LStrip(_)
LStrip(s) == IF s # <<>> /\ Head(s) \in WhiteSpace THEN LStrip(Tail(s)) ELSE s

RECURSIVE RStrip(_)
RStrip(s) ==
  IF s # <<>> /\ s[Len(s)] \in WhiteSpace THEN RStrip(SubSeq(s, 1, Len(s) - 1)) ELSE s

\* str.strip()
Strip(s) == LStrip(RStrip(s))

\* str.endswith(suffix)
EndsWith(s, suffix) ==
  /\ Len(suffix) <= Len(s)
  /\ Slice(s, Len(s) - Len(suffix) + 1, Len(s)) = suffix

(***************************************************************************)
(* EntityDeduplicator.normalize_name                                       *)
(***************************************************************************)

\* suffixes = [' inc', ' llc', ' corp', ' corporation', ' limited', ' ltd']
suffixes ==
  << <<" ", "i", "n", "c">>,
     <<" ", "l", "l", "c">>,
     <<" ", "c", "o", "r", "p">>,
     <<" ", "c", "o", "r", "p", "o", "r", "a", "t", "i", "o", "n">>,
     <<" ", "l", "i", "m", "i", "t", "e", "d">>,
     <<" ", "l", "t", "d">> >>

\* One pass of `if normalized.endswith(suffix): normalized = normalized[:-len(suffix)]'.
StripSuffix(s, suffix) ==
  IF EndsWith(s, suffix) THEN Slice(s, 1, Len(s) - Len(suffix)) ELSE s

RECURSIVE StripSuffixes(_, _)
\* The `for suffix in suffixes' loop from position i on: every suffix is
\* tried once, in list order, on the string the earlier ones left.
StripSuffixes(s, i) ==
  IF i > Len(suffixes) THEN s
  ELSE StripSuffixes(StripSuffix(s, suffixes[i]), i + 1)

\* re.sub(r'[^\w\s-]', '', normalized)
RemoveSpecial(s) == FilterChars(s, WordChars \cup WhiteSpace \cup {"-"})

\* The body of normalize_name: lines 51-65 in order.
NormalizeSteps(name) ==
  Strip(StripSuffixes(JoinSpace(Split(RemoveSpecial(Lower(name)))), 1))

\* The entity names of the model's inputs.
nRegenNetwork    == <<"R", "e", "g", "e", "n", " ", "N", "e", "t", "w", "o", "r", "k">>
nRegenNetworkInc == <<"R", "e", "g", "e", "n", " ", "N", "e", "t", "w", "o", "r", "k", " ", "I", "n", "c", ".">>
nREGENNETWORK    == <<"R", "E", "G", "E", "N", " ", "N", "E", "T", "W", "O", "R", "K">>
nAb   == <<"a", "b">>
nAbCd == <<"a", "b", " ", "c", "d">>
nXy   == <<"x", "y">>
nPq   == <<"p", "q">>
Names == {nRegenNetwork, nRegenNetworkInc, nREGENNETWORK, nAb, nAbCd, nXy, nPq, <<>>}

\* NormalizeSteps on the names of the model, evaluated once.
NormalizedOfNames == [name \in Names |-> NormalizeSteps(name)]

\* self.normalize_name(name)
normalize_name(name) ==
  IF name \in Names THEN NormalizedOfNames[name] ELSE NormalizeSteps(name)


(***************************************************************************)
(* EntityDeduplicator.calculate_similarity                                 *)
(***************************************************************************)

\* Scores are integers in units of 1/Scale (the float 1.0 is Scale).
Scale == 1000

RECURSIVE WordGramsN(_, _, _)
\* The n-grams of the padded word w from 1-based position `pos' on:
\* w[pos..pos+n-1] for every pos with pos + n - 1 <= Len(w).
WordGramsN(w, n, pos) ==
  IF pos + n - 1 > Len(w) THEN <<>>
  ELSE <<Slice(w, pos, pos + n - 1)>> \o WordGramsN(w, n, pos + 1)

RECURSIVE WordGrams(_, _)
\* TfidfVectorizer(analyzer='char_wb', ngram_range=(2, 4)) on one padded
\* word, for n, n+1, .., 4.  A word no longer than n is counted once, whole,
\* and ends the loop over n.
WordGrams(w, n) ==
  IF n > 4 THEN <<>>
  ELSE IF Len(w) <= n THEN <<w>>
       ELSE WordGramsN(w, n, 1) \o WordGrams(w, n + 1)

RECURSIVE GramsOfWords(_)
GramsOfWords(words) ==
  IF words = <<>> THEN <<>>
  ELSE WordGrams(<<" ">> \o Head(words) \o <<" ">>, 2) \o GramsOfWords(Tail(words))

\* The character n-grams of a document: lower-cased (lowercase=True), split
\* at white space, every word padded with one space on each side.
CharWbGrams(name) == GramsOfWords(Split(Lower(name)))

\* Term frequency: how often gram g occurs in the list grams.
Count(g, grams) == Cardinality({i \in DOMAIN grams : grams[i] = g})

RECURSIVE SumOver(_, _, _)
\* Sum over g in S of Count(g, a) * Count(g, b).
SumOver(S, a, b) ==
  IF S = {} THEN 0
  ELSE LET g == CHOOSE x \in S : TRUE
       IN Count(g, a) * Count(g, b) + SumOver(S \ {g}, a, b)

RECURSIVE LongDivDigits(_, _, _)
\* `digits' decimal digits of r / den after the point (r < den), as an integer.
LongDivDigits(r, den, digits) ==
  IF digits = 0 THEN 0
  ELSE LET d == (r * 10) \div den
           m == (r * 10) % den
       IN d * (10 ^ (digits - 1)) + LongDivDigits(m, den, digits - 1)

RECURSIVE ISqrtIn(_, _, _)
\* The largest s in lo..hi with s * s <= q (lo * lo <= q is given).
ISqrtIn(q, lo, hi) ==
  IF lo = hi THEN lo
  ELSE LET mid == (lo + hi + 1) \div 2
       IN IF mid * mid <= q THEN ISqrtIn(q, mid, hi) ELSE ISqrtIn(q, lo, mid - 1)

\* cosine_similarity of the two TF-IDF rows of fit_transform([name1, name2])
\* (use_idf, smooth_idf, raw term counts, two documents): a gram of both
\* documents has idf ln(3/3) + 1 = 1, a gram of one has idf ln(3/2) + 1, whose
\* square 1.97533... is taken as 160/81.  With A the sum of squared counts
\* of the shared grams of a document and B that of its other grams, the
\* squared norm is A + (160/81) B; the dot product runs over the shared
\* grams.  The result is floor(Scale * cosine).
TfidfCosine(g1, g2) ==
  LET S1     == {g1[i] : i \in DOMAIN g1}
      S2     == {g2[i] : i \in DOMAIN g2}
      shared == S1 \cap S2
      dot    == SumOver(shared, g1, g2)
      n1     == 81 * SumOver(shared, g1, g1) + 160 * SumOver(S1 \ S2, g1, g1)
      n2     == 81 * SumOver(shared, g2, g2) + 160 * SumOver(S2 \ S1, g2, g2)
      num    == dot * dot * 81 * 81
      den    == n1 * n2
  IN IF dot = 0 THEN 0
     ELSE IF num >= den THEN Scale
          ELSE ISqrtIn(LongDivDigits(num, den, 6), 0, Scale)

\* set(name.lower().replace(' ', ''))
CharSet(name) == {Lower(name)[i] : i \in DOMAIN name} \ {" "}

\* The except branch: character-set overlap |s1 & s2| / |s1 | s2|.
JaccardFallback(name1, name2) ==
  LET set1 == CharSet(name1)
      set2 == CharSet(name2)
  IN IF set1 = {} \/ set2 = {} THEN 0
     ELSE (Scale * Cardinality(set1 \cap set2)) \div Cardinality(set1 \cup set2)

calculate_similarity(name1, name2) ==
  IF name1 = <<>> \/ name2 = <<>> THEN 0
  ELSE IF normalize_name(name1) = normalize_name(name2) THEN Scale
  ELSE LET g1 == CharWbGrams(name1)
           g2 == CharWbGrams(name2)
       IN IF g1 = <<>> /\ g2 = <<>>
          THEN JaccardFallback(name1, name2)   \* fit_transform raises: empty vocabulary
          ELSE TfidfCosine(g1, g2)


\* calculate_similarity on the names of the model, evaluated once.
SimilarityOfNames == [p \in Names \X Names |-> calculate_similarity(p[1], p[2])] @@ <<>>

\* self.calculate_similarity(name1, name2)
Similarity(name1, name2) ==
  IF name1 \in Names /\ name2 \in Names THEN SimilarityOfNames[<<name1, name2>>]
  ELSE calculate_similarity(name1, name2)

(***************************************************************************)
(* Python values                                                           *)
(***************************************************************************)

\* A scalar string property value.
Str(s) == [list |-> FALSE, v |-> IF s = "" THEN {} ELSE {s}]

\* A float value, in the units of a confidence (0.0 is falsy).
Float(x) == [list |-> FALSE, v |-> IF x = 0 THEN {} ELSE {x}]

\* A list property value with the items S.
List(S) == [list |-> TRUE, v |-> S]

\* Python truthiness of a property value: '' and [] are false.
Truthy(val) == val.v # {}

\* dict.get(k, default)
Get(d, k, default) == IF k \in DOMAIN d THEN d[k] ELSE default

\* The filter without '@id': `k not in ['@type', 'name']'.
ReservedWithoutId == {"@type", "name"}

\* The keys `k not in ['@id', '@type', 'name']' filters out.
Reserved == {"@id", "@type", "name"}

\* entity.get(k) is truthy: the key is there with a non-empty value.
HasProp(entity, k) == k \in DOMAIN entity /\ Truthy(entity[k])

RECURSIVE Orders(_)
\* Every order in which Python may iterate a set: the code fixes none.
Orders(S) ==
  IF S = {} THEN {<<>>}
  ELSE UNION {{<<x>> \o p : p \in Orders(S \ {x})} : x \in S}

(***************************************************************************)
(* EntityDeduplicator                                                      *)
(*                                                                         *)
(* The object is a record D:                                               *)
(*   similarity_threshold  score on the Scale grid                         *)
(*   entity_registry       canonical_id -> EntitySignature                 *)
(*   registry_order        the keys of entity_registry in insertion order  *)
(*                         (the order dict.items() iterates)               *)
(*   name_index            normalized name -> set of canonical ids         *)
(*   type_index            entity type -> set of canonical ids             *)
(* An EntitySignature's confidence is in units of 1/(Scale * ConfDen), so   *)
(* that halving is exact.                                                  *)
(***************************************************************************)

\* The longest sequence of add_entity calls of one run.
MaxAdds == 3

\* The longest sequence of add_entity calls of a run of SpecDedup.
MaxDedupAdds == 4

\* The longest input sequence of the two-threshold comparison.
MaxMonoAdds == 4

ConfDen == 2 ^ (MaxAdds + MaxMonoAdds)

\* The float x in [0, 1] given as a score, as a confidence.
ConfOfScore(score) == score * ConfDen

\* EntityDeduplicator.__init__
NewDeduplicator(similarity_threshold) ==
  [similarity_threshold |-> similarity_threshold,
   entity_registry      |-> <<>>,
   registry_order       |-> <<>>,
   name_index           |-> <<>>,
   type_index           |-> <<>>]

\* hashlib.sha256(content.encode()).hexdigest()[:12]: the digest stands for
\* its input (no two inputs of the model collide).
Sha256Hex12(content) == content

\* entity_type.lower() of the types of the model.
TypeLower(entity_type) ==
  CASE entity_type = "regen:Agent"         -> "regen:agent"
    [] entity_type = "regen:SemanticAsset" -> "regen:semanticasset"
    [] entity_type = "Unknown"             -> "unknown"
    [] OTHER                               -> entity_type

\* generate_canonical_id hashing the name as given instead of its normalized
\* form.
generate_canonical_id_raw_name(entity_type, name) ==
  <<"entity", TypeLower(entity_type), Sha256Hex12(<<entity_type, name>>)>>

generate_canonical_id(entity_type, name) ==
  LET normalized == normalize_name(name)
      content    == <<entity_type, normalized>>
  IN <<"entity", TypeLower(entity_type), Sha256Hex12(content)>>

\* The canonical ids of the model's (type, name) pairs in the lexicographic
\* order of the strings f"entity:{entity_type.lower()}:{hexdigest[:12]}" that
\* generate_canonical_id returns for them (agent:0f74.. < agent:5658.. < ...).
CanonicalIdsInOrder ==
  <<generate_canonical_id("regen:Agent", <<"a", "b">>),
    generate_canonical_id("regen:Agent", <<"p", "q">>),
    generate_canonical_id("regen:Agent", <<>>),
    generate_canonical_id("regen:Agent", <<"R", "e", "g", "e", "n", " ", "N", "e", "t", "w", "o", "r", "k">>),
    generate_canonical_id("regen:Agent", <<"x", "y">>),
    generate_canonical_id("regen:Agent", <<"a", "b", " ", "c", "d">>),
    generate_canonical_id("regen:SemanticAsset", <<"R", "e", "g", "e", "n", " ", "N", "e", "t", "w", "o", "r", "k">>),
    generate_canonical_id("regen:SemanticAsset", <<"x", "y">>),
    generate_canonical_id("regen:SemanticAsset", <<"p", "q">>),
    generate_canonical_id("regen:SemanticAsset", <<>>),
    generate_canonical_id("regen:SemanticAsset", <<"a", "b">>),
    generate_canonical_id("regen:SemanticAsset", <<"a", "b", " ", "c", "d">>),
    generate_canonical_id("Unknown", <<"a", "b", " ", "c", "d">>),
    generate_canonical_id("Unknown", <<"R", "e", "g", "e", "n", " ", "N", "e", "t", "w", "o", "r", "k">>),
    generate_canonical_id("Unknown", <<"a", "b">>),
    generate_canonical_id("Unknown", <<"x", "y">>),
    generate_canonical_id("Unknown", <<"p", "q">>),
    generate_canonical_id("Unknown", <<>>)>>

\* id1 < id2 on the strings the ids stand for.
CanonicalIdLess(id1, id2) ==
  \E i, j \in 1..Len(CanonicalIdsInOrder) :
    i < j /\ CanonicalIdsInOrder[i] = id1 /\ CanonicalIdsInOrder[j] = id2

\* Step 1 of find_matches over name_index[normalized] iterated in order ids.
RECURSIVE ExactMatches(_, _, _)
ExactMatches(D, entity_type, ids) ==
  IF ids = <<>> THEN <<>>
  ELSE (IF D.entity_registry[Head(ids)].entity_type = entity_type
        THEN << <<Head(ids), Scale>> >>
        ELSE <<>>)
       \o ExactMatches(D, entity_type, Tail(ids))

\* The inner loop of step 2: the similarity of the first name of
\* names_to_check that reaches the threshold (the loop breaks there), or -1.
RECURSIVE FirstReaching(_, _, _)
FirstReaching(entity_name, names_to_check, threshold) ==
  IF names_to_check = <<>> THEN -1
  ELSE LET similarity == Similarity(entity_name, Head(names_to_check))
       IN IF similarity >= threshold THEN similarity
          ELSE FirstReaching(entity_name, Tail(names_to_check), threshold)

\* The fuzzy entries one canonical entity can contribute:
\* names_to_check = [signature.canonical_name] + list(signature.aliases),
\* the aliases in any order.
FuzzyEntries(D, entity_name, canonical_id) ==
  LET signature == D.entity_registry[canonical_id]
      scores == {FirstReaching(entity_name, <<signature.canonical_name>> \o al,
                               D.similarity_threshold) :
                   al \in Orders(signature.aliases)}
  IN {IF sc = -1 THEN <<>> ELSE << <<canonical_id, sc>> >> : sc \in scores}

\* Step 2 of find_matches over type_index[entity_type] iterated in order ids:
\* the lists of matches it can append.
RECURSIVE FuzzyMatches(_, _, _)
FuzzyMatches(D, entity_name, ids) ==
  IF ids = <<>> THEN {<<>>}
  ELSE {h \o t : h \in FuzzyEntries(D, entity_name, Head(ids)),
                 t \in FuzzyMatches(D, entity_name, Tail(ids))}

\* entity.get(k) and entity[k] == signature.properties.get(k)
PropertyEqual(entity, signature, k) ==
  /\ HasProp(entity, k)
  /\ k \in DOMAIN signature.properties
  /\ entity[k] = signature.properties[k]

\* Step 3 of find_matches over entity_registry.items() from position i on.
RECURSIVE PropertyMatches(_, _, _, _)
PropertyMatches(D, entity, entity_type, i) ==
  IF i > Len(D.registry_order) THEN <<>>
  ELSE LET canonical_id == D.registry_order[i]
           signature == D.entity_registry[canonical_id]
       IN (IF signature.entity_type # entity_type THEN <<>>
           ELSE (IF PropertyEqual(entity, signature, "email")
                 THEN << <<canonical_id, 950>> >> ELSE <<>>)
                \o (IF PropertyEqual(entity, signature, "website")
                    THEN << <<canonical_id, 950>> >> ELSE <<>>)
                \o (IF PropertyEqual(entity, signature, "identifier")
                    THEN << <<canonical_id, Scale>> >> ELSE <<>>))
          \o PropertyMatches(D, entity, entity_type, i + 1)

\* sorted(matches, key=lambda x: x[1], reverse=True): a stable sort, so
\* matches of equal score keep their order.  InsertSorted puts m after every
\* entry of the already sorted list whose score is >= its own.
RECURSIVE InsertSorted(_, _)
InsertSorted(m, sorted) ==
  IF sorted = <<>> THEN <<m>>
  ELSE IF Head(sorted)[2] >= m[2] THEN <<Head(sorted)>> \o InsertSorted(m, Tail(sorted))
       ELSE <<m>> \o sorted

RECURSIVE SortedDesc(_)
SortedDesc(matches) ==
  IF matches = <<>> THEN <<>>
  ELSE LET n == Len(matches)
       IN InsertSorted(matches[n], SortedDesc(SubSeq(matches, 1, n - 1)))

\* The `seen' loop: the first entry of every canonical id, in order.
RECURSIVE UniqueMatches(_, _)
UniqueMatches(sorted, seen) ==
  IF sorted = <<>> THEN <<>>
  ELSE IF Head(sorted)[1] \in seen THEN UniqueMatches(Tail(sorted), seen)
       ELSE <<Head(sorted)>> \o UniqueMatches(Tail(sorted), seen \cup {Head(sorted)[1]})

\* Lines 98-143 of find_matches: every list `matches' can be before it is
\* deduplicated and sorted, one per iteration order of the sets involved.
raw_matches(D, entity) ==
  LET entity_name == Get(entity, "name", <<>>)
      entity_type == Get(entity, "@type", "")
      normalized  == normalize_name(entity_name)
      exact == IF normalized \in DOMAIN D.name_index
               THEN {ExactMatches(D, entity_type, ids) : ids \in Orders(D.name_index[normalized])}
               ELSE {<<>>}
      fuzzy == IF entity_type \in DOMAIN D.type_index
               THEN UNION {FuzzyMatches(D, entity_name, ids) :
                             ids \in Orders(D.type_index[entity_type])}
               ELSE {<<>>}
      property == IF HasProp(entity, "email") \/ HasProp(entity, "website")
                     \/ HasProp(entity, "identifier")
                  THEN PropertyMatches(D, entity, entity_type, 1)
                  ELSE <<>>
  IN IF entity_name = <<>> THEN {<<>>}
     ELSE {ex \o fz \o property : ex \in exact, fz \in fuzzy}

\* find_matches without the sort: the `seen' loop over matches as appended.
unique_matches_unsorted(matches) == UniqueMatches(matches, {})

\* Lines 145-153 of find_matches: `Deduplicate and sort by confidence'.
unique_matches(matches) == UniqueMatches(SortedDesc(matches), {})

\* Every list find_matches(entity) can return in D.
find_matches(D, entity) == {unique_matches(m) : m \in raw_matches(D, entity)}

\* The property loop of merge_entities for one key.
MergedProperty(properties, new_entity, key) ==
  IF key \in DOMAIN new_entity /\ key \notin Reserved /\ Truthy(new_entity[key])
  THEN IF key \notin DOMAIN properties \/ ~Truthy(properties[key])
       THEN new_entity[key]
       ELSE IF new_entity[key].list /\ properties[key].list
            THEN List(properties[key].v \cup new_entity[key].v)
            ELSE properties[key]
  ELSE properties[key]

\* merge_entities without the alias step: the new name is never added.
MergedSignatureNoAlias(signature, new_entity, confidence) ==
  LET keys == DOMAIN signature.properties
              \cup {k \in DOMAIN new_entity \ Reserved : Truthy(new_entity[k])}
  IN [canonical_name   |-> signature.canonical_name,
      entity_type      |-> signature.entity_type,
      aliases          |-> signature.aliases,
      properties       |-> [k \in keys |-> MergedProperty(signature.properties, new_entity, k)],
      source_documents |-> IF HasProp(new_entity, "foundIn")
                           THEN signature.source_documents \cup {new_entity["foundIn"]}
                           ELSE signature.source_documents,
      confidence       |-> (signature.confidence + ConfOfScore(confidence)) \div 2]

\* merge_entities without the property loop: the properties stay as minted.
MergedSignatureNoProperties(signature, new_entity, confidence) ==
  LET new_name == Get(new_entity, "name", <<>>)
  IN [canonical_name   |-> signature.canonical_name,
      entity_type      |-> signature.entity_type,
      aliases          |-> IF new_name # <<>>
                              /\ normalize_name(new_name)
                                   # normalize_name(signature.canonical_name)
                           THEN signature.aliases \cup {new_name}
                           ELSE signature.aliases,
      properties       |-> signature.properties,
      source_documents |-> IF HasProp(new_entity, "foundIn")
                           THEN signature.source_documents \cup {new_entity["foundIn"]}
                           ELSE signature.source_documents,
      confidence       |-> (signature.confidence + ConfOfScore(confidence)) \div 2]

\* merge_entities with `signature.confidence = confidence': the score of the
\* match replaces the aggregate instead of being averaged into it.
MergedSignatureScoreAsConfidence(signature, new_entity, confidence) ==
  LET new_name == Get(new_entity, "name", <<>>)
      keys == DOMAIN signature.properties
              \cup {k \in DOMAIN new_entity \ Reserved : Truthy(new_entity[k])}
  IN [canonical_name   |-> signature.canonical_name,
      entity_type      |-> signature.entity_type,
      aliases          |-> IF new_name # <<>>
                              /\ normalize_name(new_name)
                                   # normalize_name(signature.canonical_name)
                           THEN signature.aliases \cup {new_name}
                           ELSE signature.aliases,
      properties       |-> [k \in keys |-> MergedProperty(signature.properties, new_entity, k)],
      source_documents |-> IF HasProp(new_entity, "foundIn")
                           THEN signature.source_documents \cup {new_entity["foundIn"]}
                           ELSE signature.source_documents,
      confidence       |-> ConfOfScore(confidence)]

\* merge_entities(canonical_id, new_entity, confidence): the signature after.
MergedSignature(signature, new_entity, confidence) ==
  LET new_name == Get(new_entity, "name", <<>>)
      keys == DOMAIN signature.properties
              \cup {k \in DOMAIN new_entity \ Reserved : Truthy(new_entity[k])}
  IN [canonical_name   |-> signature.canonical_name,
      entity_type      |-> signature.entity_type,
      aliases          |-> IF new_name # <<>>
                              /\ normalize_name(new_name)
                                   # normalize_name(signature.canonical_name)
                           THEN signature.aliases \cup {new_name}
                           ELSE signature.aliases,
      properties       |-> [k \in keys |-> MergedProperty(signature.properties, new_entity, k)],
      source_documents |-> IF HasProp(new_entity, "foundIn")
                           THEN signature.source_documents \cup {new_entity["foundIn"]}
                           ELSE signature.source_documents,
      confidence       |-> (signature.confidence + ConfOfScore(confidence)) \div 2]

merge_entities(D, canonical_id, new_entity, confidence) ==
  [D EXCEPT !.entity_registry =
     [c \in DOMAIN D.entity_registry |->
        IF c = canonical_id
        THEN MergedSignature(D.entity_registry[c], new_entity, confidence)
        ELSE D.entity_registry[c]]]

\* EntitySignature(...) as add_entity builds it; confidence takes the
\* dataclass default 1.0.
NewSignature(entity) ==
  [canonical_name   |-> Get(entity, "name", <<>>),
   entity_type      |-> Get(entity, "@type", ""),
   aliases          |-> {},
   properties       |-> [k \in DOMAIN entity \ Reserved |-> entity[k]],
   source_documents |-> IF HasProp(entity, "foundIn") THEN {entity["foundIn"]} ELSE {},
   confidence       |-> ConfOfScore(Scale)]

\* d[k].add(x) on a defaultdict(set)
IndexAdd(index, k, x) ==
  [j \in DOMAIN index \cup {k} |->
     IF j = k THEN (IF k \in DOMAIN index THEN index[k] ELSE {}) \cup {x}
     ELSE index[j]]

\* The else branch of add_entity: mint.
MintEntity(D, entity) ==
  LET canonical_id == generate_canonical_id(Get(entity, "@type", "Unknown"),
                                            Get(entity, "name",
                                                <<"u", "n", "n", "a", "m", "e", "d">>))
      signature == NewSignature(entity)
      normalized == normalize_name(signature.canonical_name)
  IN [D |-> [D EXCEPT
               !.entity_registry =
                 [c \in DOMAIN D.entity_registry \cup {canonical_id} |->
                    IF c = canonical_id THEN signature ELSE D.entity_registry[c]],
               !.registry_order =
                 IF canonical_id \in DOMAIN D.entity_registry
                 THEN D.registry_order
                 ELSE Append(D.registry_order, canonical_id),
               !.name_index = IndexAdd(D.name_index, normalized, canonical_id),
               !.type_index = IndexAdd(D.type_index, signature.entity_type, canonical_id)],
      ret |-> canonical_id,
      merged |-> FALSE]

\* add_entity(entity) when find_matches returned `matches': the object
\* after the call, the canonical id returned, and whether the call merged.
\* add_entity without the threshold test: any candidate is merged into.
add_entity_any_candidate(D, entity, matches) ==
  IF matches # <<>>
  THEN [D |-> merge_entities(D, matches[1][1], entity, matches[1][2]),
        ret |-> matches[1][1],
        merged |-> TRUE]
  ELSE MintEntity(D, entity)

\* add_entity, given the list find_matches returned.
add_entity(D, entity, matches) ==
  IF matches # <<>> /\ matches[1][2] >= D.similarity_threshold
  THEN [D |-> merge_entities(D, matches[1][1], entity, matches[1][2]),
        ret |-> matches[1][1],
        merged |-> TRUE]
  ELSE MintEntity(D, entity)

\* entity1.get('@type') == entity2.get('@type'): both None, or the same type.
SameTypeOrNone(entity1, entity2) ==
  /\ ("@type" \in DOMAIN entity1) = ("@type" \in DOMAIN entity2)
  /\ "@type" \in DOMAIN entity1 => entity1["@type"] = entity2["@type"]

\* resolve_coreferences without `Skip different types'.
resolve_coreferences_any_type(D, entities) ==
  LET n == Len(entities)
      similarity(i, j) == Similarity(Get(entities[i + 1], "name", <<>>),
                                     Get(entities[j + 1], "name", <<>>))
      edges == {e \in (0..(n - 1)) \X (0..(n - 1)) :
                  /\ e[1] < e[2]
                  /\ similarity(e[1], e[2]) >= D.similarity_threshold}
  IN [nodes |-> [i \in 0..(n - 1) |-> entities[i + 1]],
      edges |-> [e \in edges |-> [weight |-> similarity(e[1], e[2])]]]

\* resolve_coreferences: the graph G, as its node -> attributes and its
\* (i, j) -> attributes, i < j (nodes are numbered from 0, as by enumerate).
resolve_coreferences(D, entities) ==
  LET n == Len(entities)
      similarity(i, j) == Similarity(Get(entities[i + 1], "name", <<>>),
                                     Get(entities[j + 1], "name", <<>>))
      edges == {e \in (0..(n - 1)) \X (0..(n - 1)) :
                  /\ e[1] < e[2]
                  /\ SameTypeOrNone(entities[e[1] + 1], entities[e[2] + 1])
                  /\ similarity(e[1], e[2]) >= D.similarity_threshold}
  IN [nodes |-> [i \in 0..(n - 1) |-> entities[i + 1]],
      edges |-> [e \in edges |-> [weight |-> similarity(e[1], e[2])]]]

\* export_canonical_entities: the list of dicts, in the order of
\* entity_registry.items(); **signature.properties comes last in the dict
\* display, so a property key replaces the entry of the same key.  The lists
\* made of sets are given as the sets.
export_canonical_entities(D) ==
  [i \in 1..Len(D.registry_order) |->
     LET canonical_id == D.registry_order[i]
         signature == D.entity_registry[canonical_id]
     IN [k \in {"@id", "@type", "name", "aliases", "confidence", "source_documents"}
               \cup DOMAIN signature.properties |->
           IF k \in DOMAIN signature.properties THEN signature.properties[k]
           ELSE CASE k = "@id"              -> canonical_id
                  [] k = "@type"            -> signature.entity_type
                  [] k = "name"             -> signature.canonical_name
                  [] k = "aliases"          -> signature.aliases
                  [] k = "confidence"       -> Float(signature.confidence)
                  [] k = "source_documents" -> signature.source_documents]]


(***************************************************************************)
(* RelationshipDeduplicator                                                *)
(*                                                                         *)
(* self.relationships maps a triple to a dict OBJECT: add_relationship     *)
(* stores the caller's dict itself (`properties or {}'), it does not copy  *)
(* it.  Dict objects live in a heap (a sequence, a reference is an index); *)
(* the object R is                                                         *)
(*   relationships        triple -> reference                              *)
(*   relationships_order  the triples in insertion order                   *)
(* A predicate is a sequence of characters (the code lower-cases it).      *)
(***************************************************************************)

\* predicate_map, as the dict literal of normalize_relationship: key -> value.
predicate_map ==
  LET pSupports    == <<"s", "u", "p", "p", "o", "r", "t", "s">>
      pSupport     == <<"s", "u", "p", "p", "o", "r", "t">>
      pEvidenceFor == <<"e", "v", "i", "d", "e", "n", "c", "e", "F", "o", "r">>
      pOpposes     == <<"o", "p", "p", "o", "s", "e", "s">>
      pOppose      == <<"o", "p", "p", "o", "s", "e">>
      pContradicts == <<"c", "o", "n", "t", "r", "a", "d", "i", "c", "t", "s">>
      pAddresses   == <<"a", "d", "d", "r", "e", "s", "s", "e", "s">>
      pAddress     == <<"a", "d", "d", "r", "e", "s", "s">>
      pAnswers     == <<"a", "n", "s", "w", "e", "r", "s">>
  IN [k \in {pSupports, pSupport, pEvidenceFor, pOpposes, pOppose, pContradicts,
             pAddresses, pAddress, pAnswers} |->
        CASE k \in {pSupports, pSupport, pEvidenceFor}  -> pSupports
          [] k \in {pOpposes, pOppose, pContradicts}    -> pOpposes
          [] k \in {pAddresses, pAddress, pAnswers}     -> pAddresses]

\* predicate_map.get(predicate.lower(), predicate.lower())
normalize_relationship(subject, predicate, obj) ==
  <<subject, Get(predicate_map, Lower(predicate), Lower(predicate)), obj>>

\* RelationshipDeduplicator.__init__
NewRelationshipDeduplicator == [relationships |-> <<>>, relationships_order |-> <<>>]

\* The `properties' argument of a call is a reference to a dict, or None:
\* the reference that is no index of the heap.
NoDict == 0

\* add_relationship(subject, predicate, obj, properties): the object and the
\* heap after the call.
add_relationship(R, hp, subject, predicate, obj, properties) ==
  LET triple == normalize_relationship(subject, predicate, obj)
  IN IF triple \notin DOMAIN R.relationships
     THEN \* self.relationships[triple] = properties or {}
          LET fresh  == properties = NoDict \/ DOMAIN hp[properties] = {}
              ref    == IF fresh THEN Len(hp) + 1 ELSE properties
              newHp  == IF fresh THEN Append(hp, <<>>) ELSE hp
          IN [R  |-> [relationships |->
                        [t \in DOMAIN R.relationships \cup {triple} |->
                           IF t = triple THEN ref ELSE R.relationships[t]],
                      relationships_order |-> Append(R.relationships_order, triple)],
              hp |-> newHp]
     ELSE IF properties # NoDict /\ DOMAIN hp[properties] # {}
          THEN \* for key, value in properties.items(): if key not in stored: stored[key] = value
               LET ref    == R.relationships[triple]
                   stored == hp[ref]
                   given  == hp[properties]
               IN [R  |-> R,
                   hp |-> [hp EXCEPT ![ref] =
                             [k \in DOMAIN stored \cup DOMAIN given |->
                                IF k \in DOMAIN stored THEN stored[k] ELSE given[k]]]]
          ELSE [R |-> R, hp |-> hp]

\* get_relationships(): one dict per stored triple, {'subject', 'predicate',
\* 'object', **props}, in insertion order.
get_relationships(R, hp) ==
  [i \in 1..Len(R.relationships_order) |->
     LET t == R.relationships_order[i]
         props == hp[R.relationships[t]]
     IN [k \in {"subject", "predicate", "object"} \cup DOMAIN props |->
           IF k \in DOMAIN props THEN props[k]
           ELSE CASE k = "subject"   -> t[1]
                  [] k = "predicate" -> t[2]
                  [] k = "object"    -> t[3]]]


(***************************************************************************)
(* ProvenanceTracker                                                       *)
(*                                                                         *)
(* The object is a record T:                                               *)
(*   observations, resolutions, canonical      the three stores            *)
(*   canonical_order           the keys of canonical in insertion order    *)
(*   name_to_observations, doc_to_observations, canonical_to_observations  *)
(*   transformations           the log, a sequence of dicts                *)
(*   uuids                     how many uuid4() values have been drawn     *)
(*   clock                     how many datetime.now() values were read    *)
(* uuid4().hex[:12] is a value never drawn before: the n-th draw is n.  A   *)
(* timestamp is the reading of a clock that ticks at every reading.        *)
(***************************************************************************)

\* Identifiers are tuples; so are None and the exceptions a call can raise.
None       == <<"None">>
KeyError   == <<"KeyError">>
ValueError == <<"ValueError">>

NewProvenanceTracker ==
  [observations              |-> <<>>,
   resolutions               |-> <<>>,
   canonical                 |-> <<>>,
   canonical_order           |-> <<>>,
   name_to_observations      |-> <<>>,
   doc_to_observations       |-> <<>>,
   canonical_to_observations |-> <<>>,
   transformations           |-> <<>>,
   uuids                     |-> 0,
   clock                     |-> 0]

\* f"cid:sha256:{sha256(content).hexdigest()[:16]}": the digest stands for
\* its input.
generate_cid(content) == <<"cid:sha256", content>>

\* f"orn:regen.{resource_type}:{identifier}"
generate_rid(resource_type, identifier) == <<"orn:regen", resource_type, identifier>>

\* ProvenanceTracker.normalize_name
ProvNormalizeName(name) ==
  LET stripped == Strip(Lower(name))
  IN SelectSeq(stripped, LAMBDA c : c \notin {".", ","})

\* json.dumps(d, sort_keys=True) of a transformation dict: its items in the
\* order of the keys.
json_dumps(d) ==
  LET sorted_keys == <<"@id", "@type", "cid", "confidence", "evidence", "fromState",
                       "method", "process", "timestamp", "toState">>
      keys == SelectSeq(sorted_keys, LAMBDA k : k \in DOMAIN d)
  IN [i \in 1..Len(keys) |-> <<keys[i], d[keys[i]]>>]

\* record_transformation with the 'cid' key set before the dict is hashed,
\* to the number of records the ledger holds.
record_transformation_cid_in_hash(T, transformation) ==
  LET numbered == [k \in DOMAIN transformation \cup {"cid"} |->
                     IF k = "cid" THEN Len(T.transformations) ELSE transformation[k]]
      cid == generate_cid(json_dumps(numbered))
      withCid == [k \in DOMAIN numbered |-> IF k = "cid" THEN cid ELSE numbered[k]]
  IN [T EXCEPT !.transformations = Append(@, withCid)]

\* record_transformation: the dict is hashed, then the cid is added to it.
record_transformation(T, transformation) ==
  LET cid == generate_cid(json_dumps(transformation))
      withCid == [k \in DOMAIN transformation \cup {"cid"} |->
                    IF k = "cid" THEN cid ELSE transformation[k]]
  IN [T EXCEPT !.transformations = Append(@, withCid)]

\* d.setdefault(k, []).append(x), as the `if k not in d: d[k] = []' idiom.
ListIndexAppend(index, k, x) ==
  [j \in DOMAIN index \cup {k} |->
     IF j = k THEN Append(IF k \in DOMAIN index THEN index[k] ELSE <<>>, x)
     ELSE index[j]]

\* The default of entity.get('confidence', 1.0).
DefaultConfidence == Str("1.0")

\* record_observation(entity, source_doc, source_cid, position, method):
\* the tracker after the call and the observation id returned.
record_observation(T, entity, source_doc, source_cid, position, method) ==
  LET observation_id == <<"obs", T.uuids + 1>>
      observation ==
        [observation_id       |-> observation_id,
         entity_type          |-> Get(entity, "@type", "Unknown"),
         name                 |-> Get(entity, "name", <<>>),
         properties           |-> [k \in DOMAIN entity \ Reserved |-> entity[k]],
         source_document      |-> source_doc,
         source_cid           |-> source_cid,
         extraction_timestamp |-> T.clock + 1,
         extraction_method    |-> method,
         position             |-> position,
         confidence           |-> Get(entity, "confidence", DefaultConfidence)]
      normalized == ProvNormalizeName(Get(entity, "name", <<>>))
      T1 == [T EXCEPT
               !.uuids = @ + 1,
               !.clock = @ + 1,
               !.observations =
                 [o \in DOMAIN T.observations \cup {observation_id} |->
                    IF o = observation_id THEN observation ELSE T.observations[o]],
               !.name_to_observations = ListIndexAppend(@, normalized, observation_id),
               !.doc_to_observations = ListIndexAppend(@, source_doc, observation_id)]
      transformation ==
        [k \in {"@type", "@id", "process", "fromState", "toState", "method",
                "timestamp", "confidence"} |->
           CASE k = "@type"      -> "regen:Transformation"
             [] k = "@id"        -> generate_rid("transform", <<"extract", observation_id>>)
             [] k = "process"    -> "Extract"
             [] k = "fromState"  -> source_cid
             [] k = "toState"    -> observation_id
             [] k = "method"     -> method
             [] k = "timestamp"  -> observation.extraction_timestamp
             [] k = "confidence" -> observation.confidence]
  IN [T |-> record_transformation(T1, transformation), ret |-> observation_id]

\* The loop of find_matching_canonical over self.canonical.items() from
\* position i on: the first canonical entity of the observation's type one
\* of whose names normalizes to `normalized', or None.
RECURSIVE FirstMatchingCanonical(_, _, _, _)
FirstMatchingCanonical(T, observation, normalized, i) ==
  IF i > Len(T.canonical_order) THEN None
  ELSE LET canonical_id == T.canonical_order[i]
           canonical == T.canonical[canonical_id]
       IN IF observation.entity_type = canonical.entity_type
             /\ \E name \in canonical.all_names : ProvNormalizeName(name) = normalized
          THEN canonical_id
          ELSE FirstMatchingCanonical(T, observation, normalized, i + 1)

\* find_matching_canonical(observation_id); the observation is in the store.
find_matching_canonical(T, observation_id) ==
  LET observation == T.observations[observation_id]
  IN FirstMatchingCanonical(T, observation, ProvNormalizeName(observation.name), 1)

\* The first loop of create_canonical_entity from position i on: the first
\* match found, None when there is none, KeyError when an id that is not
\* in the observation store is reached first.
RECURSIVE ExistingCanonical(_, _, _)
ExistingCanonical(T, observation_ids, i) ==
  IF i > Len(observation_ids) THEN None
  ELSE IF observation_ids[i] \notin DOMAIN T.observations THEN KeyError
       ELSE LET match == find_matching_canonical(T, observation_ids[i])
            IN IF match # None THEN match
               ELSE ExistingCanonical(T, observation_ids, i + 1)

\* The `Merge properties' loop for one observation.
ProvMergedProperties(merged_properties, obs) ==
  [k \in DOMAIN merged_properties \cup DOMAIN obs.properties |->
     IF k \notin DOMAIN merged_properties THEN obs.properties[k]
     ELSE IF k \in DOMAIN obs.properties
             /\ obs.properties[k].list /\ merged_properties[k].list
          THEN List(merged_properties[k].v \cup obs.properties[k].v)
          ELSE merged_properties[k]]

\* One round of the loop with merged_properties and the observation's
\* properties being one dict: the merge is written to the observation too.
AddObservationSharingProperties(T, cid, obs_id) ==
  LET obs == T.observations[obs_id]
      canonical == T.canonical[cid]
      merged == ProvMergedProperties(canonical.merged_properties, obs)
  IN [T EXCEPT
        !.canonical[cid] =
          [canonical EXCEPT
             !.observations = Append(@, [obs EXCEPT !.properties = merged]),
             !.all_names = @ \cup {obs.name},
             !.merged_properties = merged],
        !.observations[obs_id] = [obs EXCEPT !.properties = merged],
        !.canonical_to_observations = ListIndexAppend(@, cid, obs_id)]

\* One round of `for obs_id in observation_ids' on canonical entity cid.
AddObservation(T, cid, obs_id) ==
  LET obs == T.observations[obs_id]
      canonical == T.canonical[cid]
  IN [T EXCEPT
        !.canonical[cid] =
          [canonical EXCEPT
             !.observations = Append(@, obs),
             !.all_names = @ \cup {obs.name},
             !.merged_properties = ProvMergedProperties(@, obs)],
        !.canonical_to_observations = ListIndexAppend(@, cid, obs_id)]

\* The loop from position i on; it stops with err = TRUE at an id that is
\* not in the observation store (self.observations[obs_id] raises KeyError),
\* keeping what the earlier rounds did.
RECURSIVE AddObservations(_, _, _, _)
AddObservations(T, cid, observation_ids, i) ==
  IF i > Len(observation_ids) THEN [T |-> T, err |-> FALSE]
  ELSE IF observation_ids[i] \notin DOMAIN T.observations THEN [T |-> T, err |-> TRUE]
       ELSE AddObservations(AddObservation(T, cid, observation_ids[i]), cid,
                            observation_ids, i + 1)

\* create_canonical_entity from the end of its first loop, which found
\* existing_canonical (a canonical id or None), to the `Add observations'
\* loop.  `what' names the part asked for: "canonical_id" of the canonical
\* entity found or made, "T1" the tracker once a new one is stored,
\* "resolution" the EntityResolution, "T2" the tracker once it is stored,
\* "transformation" the dict the call records at its end.
Resolving(T, observation_ids, resolution_method, existing_canonical, what) ==
  LET isNew == existing_canonical = None
      canonical_id == IF isNew THEN <<"entity", T.uuids + 1>> ELSE existing_canonical
      first_obs == T.observations[observation_ids[1]]
      \* uuid4 and datetime.now() calls of the new-entity branch
      T1 == IF isNew
            THEN [T EXCEPT
                    !.uuids = @ + 1,
                    !.clock = @ + 2,
                    !.canonical =
                      [c \in DOMAIN T.canonical \cup {canonical_id} |->
                         IF c = canonical_id
                         THEN [canonical_id      |-> canonical_id,
                               primary_name      |-> first_obs.name,
                               entity_type       |-> first_obs.entity_type,
                               all_names         |-> {first_obs.name},
                               merged_properties |-> <<>>,
                               observations      |-> <<>>,
                               resolutions       |-> <<>>,
                               created_at        |-> T.clock + 1,
                               last_updated      |-> T.clock + 2]
                         ELSE T.canonical[c]],
                    !.canonical_order = Append(@, canonical_id)]
            ELSE T
      resolution_id == <<"res", T1.uuids + 1>>
      resolution ==
        [resolution_id         |-> resolution_id,
         canonical_id          |-> canonical_id,
         observation_ids       |-> observation_ids,
         resolution_method     |-> resolution_method,
         resolution_confidence |-> IF resolution_method = "exact_match" THEN 950 ELSE 800,
         resolution_timestamp  |-> T1.clock + 1,
         resolution_evidence   |->
           [method     |-> resolution_method,
            matched_on |-> IF resolution_method = "exact_match"
                           THEN "name" ELSE "similarity"]]
      T2 == [T1 EXCEPT
               !.uuids = @ + 1,
               !.clock = @ + 1,
               !.resolutions =
                 [r \in DOMAIN T1.resolutions \cup {resolution_id} |->
                    IF r = resolution_id THEN resolution ELSE T1.resolutions[r]]]
      transformation ==
        [k \in {"@type", "@id", "process", "fromState", "toState", "method",
                "timestamp", "confidence", "evidence"} |->
           CASE k = "@type"      -> "regen:Transformation"
             [] k = "@id"        -> generate_rid("transform", <<"resolve", resolution_id>>)
             [] k = "process"    -> "Resolve"
             [] k = "fromState"  -> observation_ids
             [] k = "toState"    -> canonical_id
             [] k = "method"     -> resolution_method
             [] k = "timestamp"  -> resolution.resolution_timestamp
             [] k = "confidence" -> resolution.resolution_confidence
             [] k = "evidence"   -> resolution.resolution_evidence]
  IN CASE what = "canonical_id"   -> canonical_id
       [] what = "T1"             -> T1
       [] what = "resolution"     -> resolution
       [] what = "T2"             -> T2
       [] what = "transformation" -> transformation

\* `canonical.resolutions.append(resolution)' and
\* `canonical.last_updated = datetime.now()'.
AppendResolution(T, canonical_id, resolution) ==
  [T EXCEPT
     !.clock = @ + 1,
     !.canonical[canonical_id] =
       [@ EXCEPT !.resolutions = Append(@, resolution),
                 !.last_updated = T.clock + 1]]

\* create_canonical_entity(observation_ids, resolution_method): the tracker
\* after the call and the canonical id returned, or the exception raised.
create_canonical_entity(T, observation_ids, resolution_method) ==
  IF observation_ids = <<>> THEN [T |-> T, ret |-> ValueError]
  ELSE
  LET existing_canonical == ExistingCanonical(T, observation_ids, 1)
      Local(what) == Resolving(T, observation_ids, resolution_method, existing_canonical, what)
      canonical_id == Local("canonical_id")
      added == AddObservations(Local("T2"), canonical_id, observation_ids, 1)
      T3 == AppendResolution(added.T, canonical_id, Local("resolution"))
  IN IF existing_canonical = KeyError THEN [T |-> T, ret |-> KeyError]
     ELSE IF added.err THEN [T |-> added.T, ret |-> KeyError]
     ELSE [T |-> record_transformation(T3, Local("transformation")), ret |-> canonical_id]


\* `obs_id in str(t.get('fromState', ''))': the text of an id is in the text
\* of a Resolve record's list of ids when it is one of them; an Extract
\* record's fromState is the caller's source cid, which holds no id.
InFromState(obs_id, t) ==
  /\ t["process"] = "Resolve"
  /\ \E i \in 1..Len(t["fromState"]) : t["fromState"][i] = obs_id

\* The condition of the `transformations' comprehension of
\* get_entity_provenance on one record t of the log.
ProvenanceTransformation(T, canonical_id, t) ==
  LET contributing == IF canonical_id \in DOMAIN T.canonical_to_observations
                      THEN T.canonical_to_observations[canonical_id] ELSE <<>>
  IN \/ t["toState"] = canonical_id
     \/ \E k \in 1..Len(contributing) : InFromState(contributing[k], t)

\* get_entity_provenance(canonical_id): the dict returned, or None.  The
\* lists made of sets (aliases) are given as the sets.
get_entity_provenance(T, canonical_id) ==
  IF canonical_id \notin DOMAIN T.canonical THEN None
  ELSE
  LET canonical == T.canonical[canonical_id]
  IN [id |-> canonical_id,
      canonical |-> [name       |-> canonical.primary_name,
                     type       |-> canonical.entity_type,
                     properties |-> canonical.merged_properties,
                     aliases    |-> canonical.all_names],
      observations |->
        [k \in 1..Len(canonical.observations) |->
           LET obs == canonical.observations[k]
           IN [id         |-> obs.observation_id,
               name       |-> obs.name,
               source     |-> obs.source_document,
               source_cid |-> obs.source_cid,
               timestamp  |-> obs.extraction_timestamp,
               method     |-> obs.extraction_method,
               position   |-> obs.position,
               confidence |-> obs.confidence]],
      resolutions |->
        [k \in 1..Len(canonical.resolutions) |->
           LET res == canonical.resolutions[k]
           IN [id                  |-> res.resolution_id,
               method              |-> res.resolution_method,
               timestamp           |-> res.resolution_timestamp,
               confidence          |-> res.resolution_confidence,
               linked_observations |-> res.observation_ids,
               evidence            |-> res.resolution_evidence]],
      transformations |->
        SelectSeq(T.transformations,
                  LAMBDA t : ProvenanceTransformation(T, canonical_id, t)),
      statistics |->
        [total_observations |-> Len(canonical.observations),
         unique_sources     |-> Cardinality({canonical.observations[k].source_document :
                                               k \in 1..Len(canonical.observations)}),
         name_variations    |-> Cardinality(canonical.all_names),
         created_at         |-> canonical.created_at,
         last_updated       |-> canonical.last_updated]]

\* export_provenance_graph(): the dict returned.  generated_at is a reading
\* of the clock that is stored nowhere in the tracker.
export_provenance_graph(T) ==
  [metadata |->
     [generated_at             |-> T.clock + 1,
      total_observations       |-> Cardinality(DOMAIN T.observations),
      total_resolutions        |-> Cardinality(DOMAIN T.resolutions),
      total_canonical_entities |-> Cardinality(DOMAIN T.canonical),
      total_transformations    |-> Len(T.transformations)],
   canonical_entities |->
     [k \in 1..Len(T.canonical_order) |->
        LET entity == T.canonical[T.canonical_order[k]]
        IN [id                |-> T.canonical_order[k],
            primary_name      |-> entity.primary_name,
            type              |-> entity.entity_type,
            aliases           |-> entity.all_names,
            properties        |-> entity.merged_properties,
            observation_count |-> Len(entity.observations),
            source_count      |-> Cardinality({entity.observations[j].source_document :
                                                 j \in 1..Len(entity.observations)})]],
   transformations |-> T.transformations,
   provenance_links |->
     [canonical_id \in DOMAIN T.canonical |-> get_entity_provenance(T, canonical_id)]]


(***************************************************************************)
(* Inputs                                                                  *)
(***************************************************************************)

\* A dict literal {k1: v1, ...}: d1 @@ d2 keeps d1's keys, then adds d2's.
Agent         == "regen:Agent"
SemanticAsset == "regen:SemanticAsset"

\* The three entities of the example of entity-deduplication-system.py.
eRegen1 == ("@type" :> Agent) @@ ("name" :> nRegenNetwork)
           @@ ("website" :> Str("https://regen.network")) @@ ("foundIn" :> Str("doc1.md"))
eRegen2 == ("@type" :> Agent) @@ ("name" :> nRegenNetworkInc)
           @@ ("email" :> Str("info@regen.network")) @@ ("foundIn" :> Str("doc2.md"))
eRegen3 == ("@type" :> Agent) @@ ("name" :> nREGENNETWORK)
           @@ ("description" :> Str("Ecological data platform"))
           @@ ("foundIn" :> Str("doc3.md"))
\* The name and the property values of the Agent, as another type.
eAsset  == ("@type" :> SemanticAsset) @@ ("name" :> nRegenNetwork)
           @@ ("website" :> Str("https://regen.network"))
           @@ ("email" :> Str("info@regen.network")) @@ ("identifier" :> Str("id-1"))
eAb     == ("@type" :> Agent) @@ ("name" :> nAb) @@ ("email" :> Str("info@regen.network"))
           @@ ("website" :> Str("https://regen.network")) @@ ("identifier" :> Str("id-1"))
eAbCd   == ("@type" :> Agent) @@ ("name" :> nAbCd) @@ ("email" :> Str("ab@cd.org"))
           @@ ("website" :> Str("https://cd.org")) @@ ("tags" :> List({"t1"}))
eXy     == ("@type" :> Agent) @@ ("name" :> nXy) @@ ("email" :> Str("ab@cd.org"))
           @@ ("tags" :> List({"t2"})) @@ ("@id" :> Str("orn:regen.agent:xy"))
           @@ ("description" :> Str(""))
ePq     == ("@type" :> Agent) @@ ("name" :> nPq) @@ ("website" :> Str("https://cd.org"))
           @@ ("description" :> Str(""))
\* An entity of type 'Unknown' that carries the extractor's confidence 0.7,
\* one without '@type', one with an empty name.
eUnknown == ("@type" :> "Unknown") @@ ("name" :> nAb)
            @@ ("confidence" :> Float(ConfOfScore(700)))
eUntyped == ("name" :> nAb) @@ ("email" :> Str("ab@cd.org"))
eNoName  == ("@type" :> Agent) @@ ("name" :> <<>>) @@ ("email" :> Str("ab@cd.org"))

Entities ==
  {eRegen1, eRegen2, eRegen3, eAsset, eAb, eAbCd, eXy, ePq, eUnknown, eUntyped, eNoName}

\* The entities of the longer sequences of add_entity calls.
DedupEntities == {eRegen1, eAb, eAbCd, eNoName, eUnknown, eUntyped}

\* The input sequences of the two-threshold comparison are over these.
MonoEntities == {eAb, eAbCd, eXy, ePq, eAsset}

\* similarity_threshold of the constructor: 0.5, the default 0.85, 0.96.
Thresholds == {500, 850, 960}

\* Relationship inputs.
pCites == <<"C", "i", "t", "e", "s">>
Predicates == DOMAIN predicate_map \cup {pCites}
Subjects == {"a"}
Objects == {"b"}
\* The contents of the dict literals a caller passes.
PropDicts == {<<>>, ("x" :> "1"), ("x" :> "2") @@ ("y" :> "2")}

\* Provenance inputs: an entity with its source document and content id.
ProvInputs ==
  {[entity |-> eRegen1, source_doc |-> "data/notion/page1.md", source_cid |-> "cid:sha256:abc123"],
   [entity |-> eRegen3, source_doc |-> "data/github/readme.md", source_cid |-> "cid:sha256:ghi789"],
   [entity |-> eAsset, source_doc |-> "data/notion/page1.md", source_cid |-> "cid:sha256:abc123"],
   [entity |-> eXy, source_doc |-> "data/github/readme.md", source_cid |-> "cid:sha256:ghi789"]}

\* An observation id no record_observation call returned.
UnknownObservation == <<"obs", 0>>

\* The lists of observation ids a caller passes: of one or two ids.
ObservationIdLists(ids) == {<<a>> : a \in ids} \cup {<<a, b>> : a \in ids, b \in ids}

ResolutionMethods == {"exact_match", "fuzzy_match"}

\* Inputs of normalize_name: a base, two optional legal suffixes, an ending.
NormBases == {<<"a", "b">>, <<"A", "b">>, <<"a", "-", "b">>, <<>>}
NormSuffixes ==
  {<<>>, <<" ", "i", "n", "c">>,
   <<" ", "I", "n", "c", ".">>,
   <<" ", "l", "l", "c">>,
   <<" ", "c", "o", "r", "p">>,
   <<" ", "c", "o", "r", "p", "o", "r", "a", "t", "i", "o", "n">>,
   <<" ", "l", "i", "m", "i", "t", "e", "d">>,
   <<" ", "l", "t", "d">>,
   <<" ", " ", "L", "T", "D">>}
NormEndings == {<<>>, <<" ">>, <<".">>}
NormInputs ==
  {b \o s1 \o s2 \o e : b \in NormBases, s1 \in NormSuffixes, s2 \in NormSuffixes,
                        e \in NormEndings}

(***************************************************************************)
(* State                                                                   *)
(***************************************************************************)

VARIABLES
  program,   \* which object the run drives: "dedup", "provenance", "relationship", ...
  dedup,     \* the EntityDeduplicator
  calls,     \* history: the add_entity calls made, with what they returned
  rel,       \* the RelationshipDeduplicator
  heap,      \* the dict objects of the relationship program
  held,      \* the references to dicts the caller built and still holds
  rel_calls, \* history: how many add_relationship calls were made
  asked,     \* history: the (subject, predicate, object) passed so far
  supplied,  \* history: triple -> key -> the value of the earliest call with that key
  tracker,   \* the ProvenanceTracker
  returned,  \* history: what the tracker's calls returned, in order
  pair,      \* two EntityDeduplicators run side by side (SpecMono, SpecDet)
  norm,      \* an application of normalize_name (SpecNorm)
  writer,    \* the thread inside create_canonical_entity: its position and locals (SpecThreads)
  reader,    \* the thread reading provenance: its last call and what it returned (SpecThreads)
  coref      \* a batch of entities and the graph resolve_coreferences built of it (SpecCoref)

vars == <<program, dedup, calls, rel, heap, held, rel_calls, asked, supplied, tracker, returned,
          pair, norm, writer, reader, coref>>

dedupVars == <<dedup, calls>>
relVars   == <<rel, heap, held, rel_calls, asked, supplied>>
provVars  == <<tracker, returned>>

\* The longest sequence of add_relationship calls of one run.
MaxRelCalls == 3

\* The longest sequence of tracker calls of one run.
MaxProvCalls == 4

\* The longest sequence of record_observation and create_canonical_entity
\* calls of one run with a reading thread.
MaxThreadCalls == 3

NoPair == [pc |-> "off"]
NoNorm == [pc |-> "off"]
NoCoref == [pc |-> "off"]

InitObjects ==
  /\ dedup \in {NewDeduplicator(t) : t \in Thresholds}
  /\ calls = <<>>
  /\ rel = NewRelationshipDeduplicator
  /\ heap = <<>>
  /\ held = {}
  /\ rel_calls = 0
  /\ asked = {}
  /\ supplied = <<>>
  /\ tracker = NewProvenanceTracker
  /\ returned = <<>>
  /\ writer = [pc |-> "idle"]
  /\ reader = [call |-> "none"]

\* The entity program or the provenance program starts.
Init ==
  /\ program \in {"dedup", "provenance"}
  /\ InitObjects
  /\ program # "dedup" => dedup.similarity_threshold = 850
  /\ pair = NoPair
  /\ norm = NoNorm
  /\ coref = NoCoref

\* The relationship program starts.
InitRel ==
  /\ program = "relationship"
  /\ InitObjects
  /\ dedup.similarity_threshold = 850
  /\ pair = NoPair
  /\ norm = NoNorm
  /\ coref = NoCoref

(***************************************************************************)
(* Actions                                                                 *)
(***************************************************************************)

\* dedup.add_entity(entity)
AddEntity(entity) ==
  /\ \/ program = "dedup" /\ Len(calls) < MaxAdds
     \/ program = "registry" /\ Len(calls) < MaxDedupAdds
  /\ \E raw \in raw_matches(dedup, entity) :
       LET matches == unique_matches(raw)
           r == add_entity(dedup, entity, matches)
       IN /\ dedup' = r.D
          /\ calls' = Append(calls, [entity |-> entity, raw |-> raw, matches |-> matches,
                                     ret |-> r.ret, merged |-> r.merged])
  /\ UNCHANGED <<program, coref, relVars, provVars, pair, norm, writer, reader>>

\* The history of `supplied' after a call for triple with the dict `given'.
Supplied(triple, given) ==
  LET old == IF triple \in DOMAIN supplied THEN supplied[triple] ELSE <<>>
  IN [t \in DOMAIN supplied \cup {triple} |->
        IF t = triple
        THEN [k \in DOMAIN old \cup DOMAIN given |->
                IF k \in DOMAIN old THEN old[k] ELSE given[k]]
        ELSE supplied[t]]

RelCall(subject, predicate, obj, hp, properties) ==
  LET r == add_relationship(rel, hp, subject, predicate, obj, properties)
      given == IF properties = NoDict THEN <<>> ELSE hp[properties]
  IN /\ rel' = r.R
     /\ heap' = r.hp
     /\ rel_calls' = rel_calls + 1
     /\ asked' = asked \cup {<<subject, predicate, obj>>}
     /\ supplied' = Supplied(normalize_relationship(subject, predicate, obj), given)

\* rels.add_relationship(subject, predicate, obj): properties is None.
AddRelationship(subject, predicate, obj) ==
  /\ program = "relationship"
  /\ rel_calls < MaxRelCalls
  /\ RelCall(subject, predicate, obj, heap, NoDict)
  /\ UNCHANGED <<program, coref, held, dedupVars, provVars, pair, norm, writer, reader>>

\* rels.add_relationship(subject, predicate, obj, {...}): a new dict.
AddRelationshipNewDict(subject, predicate, obj, d) ==
  /\ program = "relationship"
  /\ rel_calls < MaxRelCalls
  /\ RelCall(subject, predicate, obj, Append(heap, d), Len(heap) + 1)
  /\ held' = held \cup {Len(heap) + 1}
  /\ UNCHANGED <<program, coref, dedupVars, provVars, pair, norm, writer, reader>>

\* rels.add_relationship(subject, predicate, obj, props): a dict the caller
\* has passed before.
AddRelationshipSameDict(subject, predicate, obj, ref) ==
  /\ program = "relationship"
  /\ rel_calls < MaxRelCalls
  /\ RelCall(subject, predicate, obj, heap, ref)
  /\ UNCHANGED <<program, coref, held, dedupVars, provVars, pair, norm, writer, reader>>

\* tracker.record_observation(entity, source_doc, source_cid)
RecordObservation(in) ==
  /\ \/ program = "provenance" /\ Len(returned) < MaxProvCalls
     \/ program = "threads" /\ writer.pc = "idle" /\ Len(returned) < MaxThreadCalls
  /\ LET r == record_observation(tracker, in.entity, in.source_doc, in.source_cid,
                                 <<>>, "mistral:7b")
     IN /\ tracker' = r.T
        /\ returned' = Append(returned, r.ret)
  /\ reader' = [call |-> "none"]
  /\ UNCHANGED <<program, coref, dedupVars, relVars, pair, norm, writer>>

\* tracker.create_canonical_entity(observation_ids, resolution_method)
CreateCanonicalEntity(observation_ids, resolution_method) ==
  /\ program = "provenance"
  /\ Len(returned) < MaxProvCalls
  /\ LET r == create_canonical_entity(tracker, observation_ids, resolution_method)
     IN /\ tracker' = r.T
        /\ returned' = Append(returned, r.ret)
  /\ UNCHANGED <<program, coref, dedupVars, relVars, pair, norm, writer, reader>>

Next ==
  \/ \E entity \in Entities : AddEntity(entity)
  \/ \E in \in ProvInputs : RecordObservation(in)
  \/ \E ids \in ObservationIdLists(DOMAIN tracker.observations \cup {UnknownObservation}),
        m \in ResolutionMethods : CreateCanonicalEntity(ids, m)

NextRel ==
  \/ \E s \in Subjects, p \in Predicates, o \in Objects : AddRelationship(s, p, o)
  \/ \E s \in Subjects, p \in Predicates, o \in Objects, d \in PropDicts :
       AddRelationshipNewDict(s, p, o, d)
  \/ \E s \in Subjects, p \in Predicates, o \in Objects, ref \in held :
       AddRelationshipSameDict(s, p, o, ref)

Spec == Init /\ [][Next]_vars

SpecRel == InitRel /\ [][NextRel]_vars

\* One EntityDeduplicator and longer sequences of add_entity calls, of fewer
\* entities.
InitDedup ==
  /\ program = "registry"
  /\ InitObjects
  /\ pair = NoPair
  /\ norm = NoNorm
  /\ coref = NoCoref

NextDedup == \E entity \in DedupEntities : AddEntity(entity)

SpecDedup == InitDedup /\ [][NextDedup]_vars


(***************************************************************************)
(* resolve_coreferences applied to a batch                                 *)
(***************************************************************************)

\* The longest batch.
MaxBatch == 3

\* The batches: every list of at most MaxBatch entities.
Batches == UNION {[1..n -> Entities] : n \in 0..MaxBatch}

InitCoref ==
  /\ program = "coreference"
  /\ InitObjects
  /\ pair = NoPair
  /\ norm = NoNorm
  /\ coref \in {[pc |-> "start", entities |-> entities] : entities \in Batches}

\* G = dedup.resolve_coreferences(entities)
ResolveCoreferences ==
  /\ program = "coreference"
  /\ coref.pc = "start"
  /\ coref' = [pc |-> "done", entities |-> coref.entities,
                G |-> resolve_coreferences(dedup, coref.entities)]
  /\ UNCHANGED <<program, dedupVars, relVars, provVars, pair, norm, writer, reader>>

SpecCoref == InitCoref /\ [][ResolveCoreferences]_vars


(***************************************************************************)
(* normalize_name applied, and applied again to its own result             *)
(***************************************************************************)

InitNorm ==
  /\ program = "normalize"
  /\ InitObjects
  /\ dedup.similarity_threshold = 850
  /\ pair = NoPair
  /\ norm = [pc |-> "start"]
  /\ coref = NoCoref

\* once = dedup.normalize_name(s)
NormalizeOnce(s) ==
  /\ norm.pc = "start"
  /\ norm' = [pc |-> "once", s |-> s, once |-> normalize_name(s)]
  /\ UNCHANGED <<program, coref, dedupVars, relVars, provVars, pair, writer, reader>>

\* twice = dedup.normalize_name(once)
NormalizeTwice ==
  /\ norm.pc = "once"
  /\ norm' = [pc |-> "twice", s |-> norm.s, once |-> norm.once,
              twice |-> normalize_name(norm.once)]
  /\ UNCHANGED <<program, coref, dedupVars, relVars, provVars, pair, writer, reader>>

NextNorm ==
  \/ \E s \in NormInputs : NormalizeOnce(s)
  \/ NormalizeTwice

SpecNorm == InitNorm /\ [][NextNorm]_vars

(***************************************************************************)
(* Two runs, each adding one entity to a new EntityDeduplicator            *)
(***************************************************************************)

\* A run that has not called add_entity yet.
FreshRun(t) == [D |-> NewDeduplicator(t), added |-> FALSE]

InitDet ==
  /\ program = "mint"
  /\ InitObjects
  /\ dedup.similarity_threshold = 850
  /\ pair \in {[pc |-> "det", first |-> FreshRun(t1), second |-> FreshRun(t2)] :
                 t1 \in Thresholds, t2 \in Thresholds}
  /\ norm = NoNorm
  /\ coref = NoCoref

\* The run after its add_entity(entity).
RunAdd(run, entity) ==
  {[D |-> r.D, added |-> TRUE, entity |-> entity, ret |-> r.ret, merged |-> r.merged] :
     r \in {add_entity(run.D, entity, matches) : matches \in find_matches(run.D, entity)}}

\* The first run calls add_entity(entity) on its new object.
MintFirst(entity) ==
  /\ pair.pc = "det"
  /\ ~pair.first.added
  /\ \E run \in RunAdd(pair.first, entity) : pair' = [pair EXCEPT !.first = run]
  /\ UNCHANGED <<program, coref, dedupVars, relVars, provVars, norm, writer, reader>>

\* The second run calls add_entity(entity) on its new object.
MintSecond(entity) ==
  /\ pair.pc = "det"
  /\ ~pair.second.added
  /\ \E run \in RunAdd(pair.second, entity) : pair' = [pair EXCEPT !.second = run]
  /\ UNCHANGED <<program, coref, dedupVars, relVars, provVars, norm, writer, reader>>

NextDet ==
  \/ \E entity \in Entities : MintFirst(entity)
  \/ \E entity \in Entities : MintSecond(entity)

SpecDet == InitDet /\ [][NextDet]_vars

(***************************************************************************)
(* One input sequence fed to two EntityDeduplicators of thresholds         *)
(* lo <= hi, counting the calls that merged                                *)
(***************************************************************************)

InitMono ==
  /\ program = "thresholds"
  /\ InitObjects
  /\ dedup.similarity_threshold = 850
  /\ pair \in {[pc |-> "mono", lo |-> NewDeduplicator(t[1]), hi |-> NewDeduplicator(t[2]),
                input |-> <<>>, merges_lo |-> 0, merges_hi |-> 0] :
                 t \in {tt \in Thresholds \X Thresholds : tt[1] <= tt[2]}}
  /\ norm = NoNorm
  /\ coref = NoCoref

\* Both objects get add_entity(entity).
AddToBoth(entity) ==
  /\ pair.pc = "mono"
  /\ Len(pair.input) < MaxMonoAdds
  /\ \E mLo \in find_matches(pair.lo, entity), mHi \in find_matches(pair.hi, entity) :
       LET rLo == add_entity(pair.lo, entity, mLo)
           rHi == add_entity(pair.hi, entity, mHi)
       IN pair' = [pc |-> "mono", lo |-> rLo.D, hi |-> rHi.D,
                   input |-> Append(pair.input, entity),
                   merges_lo |-> pair.merges_lo + (IF rLo.merged THEN 1 ELSE 0),
                   merges_hi |-> pair.merges_hi + (IF rHi.merged THEN 1 ELSE 0)]
  /\ UNCHANGED <<program, coref, dedupVars, relVars, provVars, norm, writer, reader>>

NextMono == \E entity \in MonoEntities : AddToBoth(entity)

SpecMono == InitMono /\ [][NextMono]_vars

(***************************************************************************)
(* The tracker shared by two threads: one makes the record_observation and *)
(* create_canonical_entity calls, create_canonical_entity one store at a   *)
(* time, the other reads provenance between any two of them.  The class    *)
(* has no lock, so nothing orders a read against the stores of a call in   *)
(* progress.                                                               *)
(***************************************************************************)

InitThreads ==
  /\ program = "threads"
  /\ InitObjects
  /\ dedup.similarity_threshold = 850
  /\ pair = NoPair
  /\ norm = NoNorm
  /\ coref = NoCoref

\* create_canonical_entity(observation_ids, resolution_method) is entered:
\* the check of the list, the first loop and, for a new canonical entity,
\* `self.canonical[canonical_id] = canonical'.
StartCreate(observation_ids, resolution_method) ==
  /\ program = "threads"
  /\ writer.pc = "idle"
  /\ Len(returned) < MaxThreadCalls
  /\ IF observation_ids = <<>>
     THEN /\ returned' = Append(returned, ValueError)
          /\ UNCHANGED <<tracker, writer>>
     ELSE LET existing_canonical == ExistingCanonical(tracker, observation_ids, 1)
          IN IF existing_canonical = KeyError
             THEN /\ returned' = Append(returned, KeyError)
                  /\ UNCHANGED <<tracker, writer>>
             ELSE /\ tracker' = Resolving(tracker, observation_ids, resolution_method,
                                          existing_canonical, "T1")
                  /\ writer' = [pc |-> "resolution", observation_ids |-> observation_ids,
                                resolution_method |-> resolution_method,
                                existing_canonical |-> existing_canonical,
                                before |-> tracker, i |-> 1]
                  /\ UNCHANGED returned
  /\ reader' = [call |-> "none"]
  /\ UNCHANGED <<program, coref, dedupVars, relVars, pair, norm>>

\* The next store of the create_canonical_entity call in progress:
\* `self.resolutions[resolution_id] = resolution', one round of the
\* `Add observations' loop (or its KeyError),
\* `canonical.resolutions.append(resolution)', then record_transformation
\* and the return.
ResumeCreate ==
  /\ program = "threads"
  /\ writer.pc # "idle"
  /\ LET Call(what) == Resolving(writer.before, writer.observation_ids,
                                  writer.resolution_method, writer.existing_canonical, what)
         obs_id == writer.observation_ids[writer.i]
     IN CASE writer.pc = "resolution" ->
               /\ tracker' = Call("T2")
               /\ writer' = [writer EXCEPT !.pc = "add"]
               /\ UNCHANGED returned
          [] writer.pc = "add" /\ obs_id \notin DOMAIN tracker.observations ->
               /\ returned' = Append(returned, KeyError)
               /\ writer' = [pc |-> "idle"]
               /\ UNCHANGED tracker
          [] writer.pc = "add" /\ obs_id \in DOMAIN tracker.observations ->
               /\ tracker' = AddObservation(tracker, Call("canonical_id"), obs_id)
               /\ writer' = [writer EXCEPT
                               !.i = @ + 1,
                               !.pc = IF writer.i = Len(writer.observation_ids)
                                      THEN "append" ELSE "add"]
               /\ UNCHANGED returned
          [] writer.pc = "append" ->
               /\ tracker' = AppendResolution(tracker, Call("canonical_id"), Call("resolution"))
               /\ writer' = [writer EXCEPT !.pc = "record"]
               /\ UNCHANGED returned
          [] writer.pc = "record" ->
               /\ tracker' = record_transformation(tracker, Call("transformation"))
               /\ returned' = Append(returned, Call("canonical_id"))
               /\ writer' = [pc |-> "idle"]
  /\ reader' = [call |-> "none"]
  /\ UNCHANGED <<program, coref, dedupVars, relVars, pair, norm>>

\* A canonical id no create_canonical_entity call returned.
UnknownCanonical == <<"entity", 0>>

\* tracker.get_entity_provenance(canonical_id) in the reading thread
GetEntityProvenance(canonical_id) ==
  /\ program = "threads"
  /\ reader' = [call |-> "get_entity_provenance", canonical_id |-> canonical_id,
                ret |-> get_entity_provenance(tracker, canonical_id)]
  /\ UNCHANGED <<program, coref, dedupVars, relVars, provVars, pair, norm, writer>>

\* tracker.export_provenance_graph() in the reading thread
ExportProvenanceGraph ==
  /\ program = "threads"
  /\ reader' = [call |-> "export_provenance_graph", ret |-> export_provenance_graph(tracker)]
  /\ UNCHANGED <<program, coref, dedupVars, relVars, provVars, pair, norm, writer>>

NextThreads ==
  \/ \E in \in ProvInputs : RecordObservation(in)
  \/ \E ids \in ObservationIdLists(DOMAIN tracker.observations \cup {UnknownObservation}),
        m \in ResolutionMethods : StartCreate(ids, m)
  \/ ResumeCreate
  \/ \E canonical_id \in DOMAIN tracker.canonical \cup {UnknownCanonical} :
       GetEntityProvenance(canonical_id)
  \/ ExportProvenanceGraph

SpecThreads == InitThreads /\ [][NextThreads]_vars


(***************************************************************************)
(* Replay of the transformation log                                        *)
(*                                                                         *)
(* The rebuild of the canonical store from the log alone: the Extract       *)
(* records give the observations, then the Resolve records, in log order,  *)
(* are applied to them as create_canonical_entity applies a resolution.    *)
(* An observation rebuilt from an Extract record has the fields the record *)
(* carries; the others are those of an entity without them.                *)
(***************************************************************************)

\* The observation an Extract record yields.
ReplayedObservation(record) ==
  [observation_id       |-> record["toState"],
   entity_type          |-> "Unknown",
   name                 |-> <<>>,
   properties           |-> <<>>,
   source_cid           |-> record["fromState"],
   extraction_timestamp |-> record["timestamp"],
   extraction_method    |-> record["method"],
   confidence           |-> record["confidence"]]

\* The observation store the Extract records of the log yield.
ReplayExtracts(log) ==
  LET extracts == {i \in 1..Len(log) : log[i]["process"] = "Extract"}
  IN [o \in {log[i]["toState"] : i \in extracts} |->
        ReplayedObservation(log[CHOOSE i \in extracts : log[i]["toState"] = o])]

\* One member added to a rebuilt canonical entity.
RECURSIVE ReplayMembers(_, _, _, _)
ReplayMembers(canonical, observations, observation_ids, i) ==
  IF i > Len(observation_ids) THEN canonical
  ELSE LET obs == observations[observation_ids[i]]
       IN ReplayMembers([observations      |-> Append(canonical.observations, obs.observation_id),
                         all_names         |-> canonical.all_names \cup {obs.name},
                         merged_properties |-> ProvMergedProperties(canonical.merged_properties,
                                                                    obs)],
                        observations, observation_ids, i + 1)

\* The canonical store after the Resolve records of the log from position i
\* on are applied to `store'.
RECURSIVE ReplayResolves(_, _, _, _)
ReplayResolves(log, observations, store, i) ==
  IF i > Len(log) THEN store
  ELSE IF log[i]["process"] # "Resolve" THEN ReplayResolves(log, observations, store, i + 1)
  ELSE LET canonical_id == log[i]["toState"]
           before == IF canonical_id \in DOMAIN store THEN store[canonical_id]
                     ELSE [observations |-> <<>>, all_names |-> {}, merged_properties |-> <<>>]
           after  == ReplayMembers(before, observations, log[i]["fromState"], 1)
       IN ReplayResolves(log, observations,
                         [c \in DOMAIN store \cup {canonical_id} |->
                            IF c = canonical_id THEN after ELSE store[c]],
                         i + 1)

\* The canonical store rebuilt from the log.
Replay(log) == ReplayResolves(log, ReplayExtracts(log), <<>>, 1)

\* The live canonical store, as what a rebuild is compared on: per canonical
\* entity its members in order, its aliases and its merged properties.
CanonicalView(T) ==
  [c \in DOMAIN T.canonical |->
     [observations      |-> [k \in 1..Len(T.canonical[c].observations) |->
                               T.canonical[c].observations[k].observation_id],
      all_names         |-> T.canonical[c].all_names,
      merged_properties |-> T.canonical[c].merged_properties]]

(***************************************************************************)
(* Properties                                                              *)
(***************************************************************************)

\* C6: normalize_name is idempotent: normalizing a normalized name gives the
\* same string, also for names that end in several legal suffixes.
C6_NormalizeIdempotent ==
  norm.pc = "twice" => norm.twice = norm.once

\* C5: minting through add_entity is deterministic: two runs that each add
\* one entity to a new registry return the same canonical id whenever the
\* entities have the same type and the same normalized name, whatever else
\* the entities carry and whatever the thresholds are.
C5_MintDeterministic ==
  (/\ pair.pc = "det"
   /\ pair.first.added
   /\ pair.second.added
   /\ Get(pair.first.entity, "@type", "Unknown") = Get(pair.second.entity, "@type", "Unknown")
   /\ normalize_name(Get(pair.first.entity, "name", <<"u", "n", "n", "a", "m", "e", "d">>))
        = normalize_name(Get(pair.second.entity, "name", <<"u", "n", "n", "a", "m", "e", "d">>)))
  => /\ ~pair.first.merged
     /\ ~pair.second.merged
     /\ pair.first.ret = pair.second.ret
     /\ pair.first.ret \in DOMAIN pair.first.D.entity_registry
     /\ pair.second.ret \in DOMAIN pair.second.D.entity_registry

\* C5 happens: "Regen Network" with a website and "REGEN NETWORK" with a
\* description, added under different thresholds, got the same id.
C5_Witness ==
  /\ pair.pc = "det"
  /\ pair.first.added
  /\ pair.second.added
  /\ pair.first.entity = eRegen1
  /\ pair.second.entity = eRegen3
  /\ pair.first.D.similarity_threshold # pair.second.D.similarity_threshold
  /\ pair.first.ret = pair.second.ret

\* C2: over one input sequence, the run with the higher threshold never
\* merges more often than the run with the lower threshold.
C2_ThresholdMonotone ==
  pair.pc = "mono" => pair.merges_hi <= pair.merges_lo

\* C7: "Regen Network" (website), "Regen Network Inc." (email) and
\* "REGEN NETWORK" (description), added in this order to an empty registry of
\* threshold 0.85, leave one canonical entity, whose id all three calls
\* returned and whose properties hold the website and the email.
C7_RegenNetworkScenario ==
  (/\ program = "dedup"
   /\ dedup.similarity_threshold = 850
   /\ Len(calls) = 3
   /\ calls[1].entity = eRegen1
   /\ calls[2].entity = eRegen2
   /\ calls[3].entity = eRegen3)
  => /\ Cardinality(DOMAIN dedup.entity_registry) = 1
     /\ calls[1].ret \in DOMAIN dedup.entity_registry
     /\ calls[2].ret = calls[1].ret
     /\ calls[3].ret = calls[1].ret
     /\ LET properties == dedup.entity_registry[calls[1].ret].properties
        IN /\ "website" \in DOMAIN properties
           /\ properties["website"] = eRegen1["website"]
           /\ "email" \in DOMAIN properties
           /\ properties["email"] = eRegen2["email"]

\* C7 happens: the three calls were made under threshold 0.85, the first
\* minted and the other two merged.
C7_Witness ==
  /\ program = "dedup"
  /\ dedup.similarity_threshold = 850
  /\ Len(calls) = 3
  /\ calls[1].entity = eRegen1 /\ ~calls[1].merged
  /\ calls[2].entity = eRegen2 /\ calls[2].merged
  /\ calls[3].entity = eRegen3 /\ calls[3].merged

\* C10: in every registry state and for every entity, the list find_matches
\* returns has each canonical id once, with the highest score any strategy
\* appended for that id, and is sorted by score, highest first.
C10_FindMatchesRanked ==
  \A entity \in Entities :
    \A matches \in raw_matches(dedup, entity) :
      LET returned_list == unique_matches(matches)
      IN /\ \A i, j \in 1..Len(returned_list) :
              i < j => /\ returned_list[i][1] # returned_list[j][1]
                       /\ returned_list[i][2] >= returned_list[j][2]
         /\ {returned_list[i][1] : i \in 1..Len(returned_list)}
              = {matches[i][1] : i \in 1..Len(matches)}
         /\ \A i \in 1..Len(returned_list) :
              /\ \E k \in 1..Len(matches) : matches[k] = returned_list[i]
              /\ \A k \in 1..Len(matches) :
                   matches[k][1] = returned_list[i][1] => matches[k][2] <= returned_list[i][2]

\* C10 happens: a find_matches call had two strategies score one canonical
\* entity differently and a higher score appended after a lower one, and
\* returned two candidates.
C10_Witness ==
  \E c \in 1..Len(calls) :
    LET matches == calls[c].raw
    IN /\ \E i, j \in 1..Len(matches) :
            matches[i][1] = matches[j][1] /\ matches[i][2] # matches[j][2]
       /\ \E i, j \in 1..Len(matches) : i < j /\ matches[i][2] < matches[j][2]
       /\ Len(calls[c].matches) >= 2
       /\ calls[c].matches = unique_matches(matches)

C4_NoCrossTypeMerge ==
  /\ (calls # <<>> /\ calls[Len(calls)].merged)
     => dedup.entity_registry[calls[Len(calls)].ret].entity_type
          = Get(calls[Len(calls)].entity, "@type", "")
  /\ \A entity \in Entities :
       \A matches \in find_matches(dedup, entity) :
         \A i \in 1..Len(matches) :
           dedup.entity_registry[matches[i][1]].entity_type = Get(entity, "@type", "")

\* C8: a predicate of the synonym table is stored under its canonical form:
\* once add_relationship(s, p, o) was called with p a key of the table, the
\* relationships stored for (s, o) under p, under p lower-cased or under
\* p's canonical form are one, the one with the canonical form; so
\* ("a", "supports", "b") and ("a", "evidenceFor", "b") leave one
\* relationship, of predicate "supports".
C8_SynonymsStoredCanonical ==
  \A t \in asked :
    t[2] \in DOMAIN predicate_map
    => {r \in DOMAIN rel.relationships :
          /\ r[1] = t[1]
          /\ r[3] = t[3]
          /\ r[2] \in {t[2], Lower(t[2]), predicate_map[t[2]]}}
         = {<<t[1], predicate_map[t[2]], t[3]>>}

\* C9: there is one stored relationship per (subject, normalized predicate,
\* object) passed, and each of its property keys has the value of the
\* earliest call for that triple that carried the key, and no other key.
C9_FirstWriteWins ==
  /\ DOMAIN rel.relationships = {normalize_relationship(t[1], t[2], t[3]) : t \in asked}
  /\ Len(rel.relationships_order) = Cardinality(DOMAIN rel.relationships)
  /\ \A triple \in DOMAIN rel.relationships :
       /\ triple \in DOMAIN supplied
       /\ heap[rel.relationships[triple]] = supplied[triple]
  /\ \A i \in 1..Len(rel.relationships_order) :
       LET r == get_relationships(rel, heap)[i]
           triple == rel.relationships_order[i]
       IN \A k \in DOMAIN supplied[triple] \ {"subject", "predicate", "object"} :
            k \in DOMAIN r /\ r[k] = supplied[triple][k]

\* C1: the canonical store rebuilt from the transformation log alone equals
\* the live one: the same canonical entities with the same aliases, merged
\* properties and members.
C1_ReplayEqualsLive ==
  Replay(tracker.transformations) = CanonicalView(tracker)

\* C11: an add_entity call for an entity with an empty name mints: it does
\* not merge, the id it returns was no key of the registry before the call,
\* and every canonical entity of the registry is after the call as it was
\* before.
C11_EmptyNameAlwaysMintsNew ==
  [][(/\ Len(calls') = Len(calls) + 1
      /\ Get(calls'[Len(calls')].entity, "name", <<>>) = <<>>)
     => /\ ~calls'[Len(calls')].merged
        /\ calls'[Len(calls')].raw = <<>>
        /\ calls'[Len(calls')].ret \notin DOMAIN dedup.entity_registry
        /\ calls'[Len(calls')].ret \in DOMAIN dedup'.entity_registry
        /\ \A id \in DOMAIN dedup.entity_registry :
             /\ id \in DOMAIN dedup'.entity_registry
             /\ dedup'.entity_registry[id] = dedup.entity_registry[id]]_vars

\* C12: when several candidates tie on the top score, add_entity merges
\* into the one with the most prior contributing observations and, among
\* those of equal count, into the one with the lowest canonical id.
C12_TieBreakByEvidenceThenId ==
  \A n \in 1..Len(calls) :
    calls[n].merged
    => LET matches == calls[n].matches
           top == {matches[i][1] : i \in {k \in 1..Len(matches) : matches[k][2] = matches[1][2]}}
           Prior(id) ==
             Cardinality({j \in 1..(n - 1) :
                            /\ calls[j].ret = id
                            /\ \A k \in (j + 1)..(n - 1) :
                                 calls[k].ret # id \/ calls[k].merged})
           most == {id \in top : \A other \in top : Prior(other) <= Prior(id)}
       IN /\ calls[n].ret \in most
          /\ \A other \in most : ~CanonicalIdLess(other, calls[n].ret)

\* C13: the ledger has one record per observation and per resolution
\* record: its length is the number of observations plus the number of
\* resolution records, each observation has one Extract record and each
\* resolution record one Resolve record.
C13_OneTransformationPerStep ==
  LET log == tracker.transformations
  IN /\ Len(log) = Cardinality(DOMAIN tracker.observations)
                     + Cardinality(DOMAIN tracker.resolutions)
     /\ \A o \in DOMAIN tracker.observations :
          Cardinality({i \in 1..Len(log) :
                         log[i]["process"] = "Extract" /\ log[i]["toState"] = o}) = 1
     /\ \A r \in DOMAIN tracker.resolutions :
          Cardinality({i \in 1..Len(log) :
                         /\ log[i]["process"] = "Resolve"
                         /\ log[i]["@id"] = generate_rid("transform", <<"resolve", r>>)}) = 1


\* C14: an observation is stored by a record_observation call, which returns
\* its id, and from then on no step of any thread (record_observation, the
\* stores of create_canonical_entity, get_entity_provenance,
\* export_provenance_graph) changes a field of it or takes it out of the
\* store.
C14_ObservationsImmutable ==
  [][/\ \A o \in DOMAIN tracker.observations :
          /\ o \in DOMAIN tracker'.observations
          /\ tracker'.observations[o] = tracker.observations[o]
     /\ \A o \in DOMAIN tracker'.observations \ DOMAIN tracker.observations :
          /\ returned' = Append(returned, o)
          /\ DOMAIN tracker'.observations = DOMAIN tracker.observations \cup {o}]_vars

\* C14 happens: two observations with different properties were merged into
\* one canonical entity, whose merged properties differ from those of each,
\* and the graph was exported.
C14_Witness ==
  /\ reader.call = "export_provenance_graph"
  /\ writer.pc = "idle"
  /\ \E c \in DOMAIN tracker.canonical :
       /\ Len(tracker.canonical[c].observations) = 2
       /\ \A k \in 1..2 :
            /\ tracker.canonical[c].observations[k].observation_id \in DOMAIN tracker.observations
            /\ tracker.canonical[c].observations[k].properties
                 # tracker.canonical[c].merged_properties


\* C15: the cid of every record of the ledger is the hash of the key-sorted
\* serialization of the record's other fields, so recomputing it from the
\* stored record gives the stored cid, and two records of the ledger with
\* equal other fields have equal cids.
C15_CidIsHashOfOtherFields ==
  LET log == tracker.transformations
      Others(t) == [k \in DOMAIN t \ {"cid"} |-> t[k]]
  IN /\ \A i \in 1..Len(log) :
          /\ "cid" \in DOMAIN log[i]
          /\ log[i]["cid"] = generate_cid(json_dumps(Others(log[i])))
     /\ \A i, j \in 1..Len(log) :
          Others(log[i]) = Others(log[j]) => log[i]["cid"] = log[j]["cid"]

\* C15 happens: the ledger holds the record of an extraction and the record
\* of a resolution, which has the evidence key the other has not.
C15_Witness ==
  LET log == tracker.transformations
  IN \E i, j \in 1..Len(log) :
       /\ log[i]["process"] = "Extract"
       /\ log[j]["process"] = "Resolve"
       /\ "evidence" \in DOMAIN log[j] \ DOMAIN log[i]


\* C16: between calls, for every canonical id c, get_entity_provenance(c)
\* gives c's current merged view, the observations contributing to c with
\* the source and confidence they were stored with, every resolution record
\* of the tracker whose target is c, and exactly the ledger records whose
\* to-state is c or whose from-state holds a contributing observation id.
C16_ProvenanceIsComplete ==
  \A c \in DOMAIN tracker.canonical :
    LET p == get_entity_provenance(tracker, c)
        canonical == tracker.canonical[c]
        contributing == IF c \in DOMAIN tracker.canonical_to_observations
                        THEN tracker.canonical_to_observations[c] ELSE <<>>
        ids == {contributing[k] : k \in 1..Len(contributing)}
        log == tracker.transformations
    IN /\ p.canonical = [name |-> canonical.primary_name, type |-> canonical.entity_type,
                         properties |-> canonical.merged_properties,
                         aliases |-> canonical.all_names]
       /\ Len(p.observations) = Len(contributing)
       /\ \A k \in 1..Len(contributing) :
            /\ p.observations[k].id = contributing[k]
            /\ p.observations[k].source = tracker.observations[contributing[k]].source_document
            /\ p.observations[k].confidence = tracker.observations[contributing[k]].confidence
       /\ {p.resolutions[k].id : k \in 1..Len(p.resolutions)}
            = {r \in DOMAIN tracker.resolutions : tracker.resolutions[r].canonical_id = c}
       /\ p.transformations
            = SelectSeq(log, LAMBDA t :
                          \/ t["toState"] = c
                          \/ /\ t["process"] = "Resolve"
                             /\ \E k \in 1..Len(t["fromState"]) : t["fromState"][k] \in ids)


\* C17: in every reachable state, merge_entities given a registered
\* canonical id and an entity of another type than that canonical entity's
\* leaves the registry as it is, and create_canonical_entity given stored
\* observations one of which has another type than the canonical entity they
\* would go to (the one the first loop finds, or the new one of the first
\* observation's type) raises and leaves the canonical store as it is.
C17_CrossTypeMergeRefused ==
  /\ \A canonical_id \in DOMAIN dedup.entity_registry :
       \A new_entity \in Entities :
         Get(new_entity, "@type", "") # dedup.entity_registry[canonical_id].entity_type
         => merge_entities(dedup, canonical_id, new_entity, 950).entity_registry
              = dedup.entity_registry
  /\ \A observation_ids \in ObservationIdLists(DOMAIN tracker.observations) :
       \A resolution_method \in ResolutionMethods :
         LET existing_canonical == ExistingCanonical(tracker, observation_ids, 1)
             target_type == IF existing_canonical = None
                            THEN tracker.observations[observation_ids[1]].entity_type
                            ELSE tracker.canonical[existing_canonical].entity_type
             call == create_canonical_entity(tracker, observation_ids, resolution_method)
         IN (\E k \in 1..Len(observation_ids) :
               tracker.observations[observation_ids[k]].entity_type # target_type)
            => /\ call.ret \in {ValueError, KeyError}
               /\ call.T.canonical = tracker.canonical


\* C18: what a provenance read returns while a create_canonical_entity call
\* is in progress is what the same read returns on the tracker as it was
\* before the call or on the tracker as the whole call leaves it: the read
\* sees none of the states in between.
C18_ReadSeesNoPartialMerge ==
  (writer.pc # "idle" /\ reader.call # "none")
  => LET before == writer.before
         after == create_canonical_entity(writer.before, writer.observation_ids,
                                          writer.resolution_method).T
     IN IF reader.call = "get_entity_provenance"
        THEN reader.ret \in {get_entity_provenance(before, reader.canonical_id),
                             get_entity_provenance(after, reader.canonical_id)}
        ELSE reader.ret \in {export_provenance_graph(before), export_provenance_graph(after)}


\* C19: in every reachable state no canonical entity, of the registry or of
\* the tracker, minted or extended by merges, has '@type', 'name' or '@id'
\* among the keys of its merged properties.
C19_NoReservedKeyInProperties ==
  /\ \A id \in DOMAIN dedup.entity_registry :
       DOMAIN dedup.entity_registry[id].properties \cap {"@type", "name", "@id"} = {}
  /\ \A c \in DOMAIN tracker.canonical :
       DOMAIN tracker.canonical[c].merged_properties \cap {"@type", "name", "@id"} = {}

\* C19 happens: an entity that has the three reserved keys was merged into a
\* canonical entity of the registry, which got a property from it and from
\* an entity minted or merged before.
C19_Witness ==
  \E n \in 1..Len(calls) :
    /\ calls[n].merged
    /\ {"@type", "name", "@id"} \subseteq DOMAIN calls[n].entity
    /\ calls[n].ret \in DOMAIN dedup.entity_registry
    /\ \E k \in DOMAIN dedup.entity_registry[calls[n].ret].properties :
         k \in DOMAIN calls[n].entity
    /\ \E k \in DOMAIN dedup.entity_registry[calls[n].ret].properties :
         k \notin DOMAIN calls[n].entity


\* C20: after every add_entity call the confidence of every canonical entity
\* is between 0 and 1, and a call that merges, its scores being between 0
\* and 1, leaves the canonical entity it returns with exactly half the sum of
\* its confidence before the call and the score of the match, and every
\* other canonical entity with the confidence it had.
C20_ConfidenceIsAveraged ==
  [][Len(calls') = Len(calls) + 1
     => LET call == calls'[Len(calls')]
        IN /\ \A id \in DOMAIN dedup'.entity_registry :
                /\ 0 <= dedup'.entity_registry[id].confidence
                /\ dedup'.entity_registry[id].confidence <= ConfOfScore(Scale)
           /\ (call.merged /\ \A k \in 1..Len(call.matches) : call.matches[k][2] \in 0..Scale)
              => /\ call.ret = call.matches[1][1]
                 /\ 2 * dedup'.entity_registry[call.ret].confidence
                      = dedup.entity_registry[call.ret].confidence
                        + ConfOfScore(call.matches[1][2])
                 /\ DOMAIN dedup'.entity_registry = DOMAIN dedup.entity_registry
                 /\ \A id \in DOMAIN dedup.entity_registry \ {call.ret} :
                      dedup'.entity_registry[id].confidence
                        = dedup.entity_registry[id].confidence]_vars

\* C20 happens: the last call merged with a score below 1 into a canonical
\* entity, whose confidence is now below 1, while the registry held another
\* canonical entity.
C20_Witness ==
  /\ calls # <<>>
  /\ LET call == calls[Len(calls)]
     IN /\ call.merged
        /\ call.matches[1][2] < Scale
        /\ dedup.entity_registry[call.ret].confidence < ConfOfScore(Scale)
        /\ \E id \in DOMAIN dedup.entity_registry \ {call.ret} :
             dedup.entity_registry[id].confidence = ConfOfScore(Scale)


(***************************************************************************)
(* C21: when add_entity mints a canonical entity for an observation that   *)
(* carries a confidence, the aggregate confidence of the new canonical     *)
(* entity is that confidence.                                              *)
(***************************************************************************)
C21_MintTakesObservationConfidence ==
  \A i \in 1..Len(calls) :
    (/\ i = Len(calls)
     /\ ~calls[i].merged
     /\ "confidence" \in DOMAIN calls[i].entity)
    => Float(dedup.entity_registry[calls[i].ret].confidence) = calls[i].entity["confidence"]


(***************************************************************************)
(* C22: add_entity merges into the first candidate of the list find_matches*)
(* returned exactly when that list is not empty and its first score is at  *)
(* least the threshold; otherwise (no candidate, first score below the     *)
(* threshold, empty registry) it mints; either way the id it returns is a  *)
(* key of the registry after the call.                                     *)
(***************************************************************************)
C22_MergeIffTopReachesThreshold ==
  [][Len(calls') = Len(calls) + 1
     => LET call == calls'[Len(calls')]
            matches == call.matches
            reaches == matches # <<>> /\ matches[1][2] >= dedup.similarity_threshold
        IN /\ matches \in find_matches(dedup, call.entity)
           /\ call.merged <=> reaches
           /\ reaches => /\ call.ret = matches[1][1]
                          /\ dedup' = merge_entities(dedup, matches[1][1], call.entity,
                                                     matches[1][2])
           /\ ~reaches => /\ call.ret = MintEntity(dedup, call.entity).ret
                           /\ dedup' = MintEntity(dedup, call.entity).D
           /\ DOMAIN dedup.entity_registry = {} => ~reaches
           /\ call.ret \in DOMAIN dedup'.entity_registry]_vars

\* C22 happens: the three branches were taken: a call found no candidate in
\* an empty registry and minted, a call found a candidate whose score is
\* below the threshold and minted, a call merged.
C22_Witness ==
  /\ Len(calls) = 3
  /\ calls[1].matches = <<>> /\ ~calls[1].merged
  /\ \E i \in 2..3 :
       /\ calls[i].matches # <<>>
       /\ calls[i].matches[1][2] < dedup.similarity_threshold
       /\ ~calls[i].merged
       /\ calls[i].ret \in DOMAIN dedup.entity_registry
  /\ \E i \in 2..3 :
       /\ calls[i].merged
       /\ calls[i].matches[1][2] >= dedup.similarity_threshold
       /\ calls[i].ret = calls[i].matches[1][1]


(***************************************************************************)
(* C23: a merge handles each non-reserved property key of the incoming     *)
(* observation so: the canonical entity has no value or an empty value for *)
(* the key: the incoming value is set; both values are lists: the result   *)
(* is their union; otherwise the existing value stays.  For add_entity     *)
(* this is stated of each merging call; for the tracker, whose call adds   *)
(* several observations, by its consequence: a key of merged_properties    *)
(* for which a contributing observation has a non-empty value is not left  *)
(* empty, a scalar set non-empty by the first such observation is that     *)
(* observation's, and a list holds the items of every contributing list.   *)
(***************************************************************************)
C23_MergeSetsUnionsOrKeeps ==
  [][/\ (Len(calls') = Len(calls) + 1 /\ calls'[Len(calls')].merged)
        => LET call == calls'[Len(calls')]
               old == dedup.entity_registry[call.ret].properties
               new == dedup'.entity_registry[call.ret].properties
           IN /\ \A k \in DOMAIN call.entity \ Reserved :
                   /\ k \in DOMAIN new
                   /\ new[k] = IF k \notin DOMAIN old \/ ~Truthy(old[k])
                                THEN call.entity[k]
                                ELSE IF call.entity[k].list /\ old[k].list
                                     THEN List(old[k].v \cup call.entity[k].v)
                                     ELSE old[k]
              /\ \A k \in DOMAIN old \ DOMAIN call.entity : k \in DOMAIN new /\ new[k] = old[k]
     /\ \A cid \in DOMAIN tracker'.canonical :
          LET canonical == tracker'.canonical[cid]
              merged == canonical.merged_properties
          IN \A i \in 1..Len(canonical.observations) :
               LET properties == canonical.observations[i].properties
               IN \A k \in DOMAIN properties :
                    /\ k \in DOMAIN merged
                    /\ Truthy(properties[k]) => Truthy(merged[k])
                    /\ (properties[k].list /\ merged[k].list)
                         => properties[k].v \subseteq merged[k].v]_vars


(***************************************************************************)
(* C24: for every entity and every canonical entity the fuzzy strategy     *)
(* examines for it (those of type_index under the entity's type), the      *)
(* strategy scores the canonical entity with the maximum of the            *)
(* similarities between the incoming name and the canonical name and each  *)
(* alias, and appends it exactly when that maximum is at least the         *)
(* threshold, whatever the order in which the names are examined.          *)
(***************************************************************************)
C24_FuzzyScoreIsMaximum ==
  \A entity \in Entities :
    LET entity_name == Get(entity, "name", <<>>)
        entity_type == Get(entity, "@type", "")
    IN (entity_name # <<>> /\ entity_type \in DOMAIN dedup.type_index)
       => \A canonical_id \in dedup.type_index[entity_type] :
            LET signature == dedup.entity_registry[canonical_id]
                names == {signature.canonical_name} \cup signature.aliases
                best == CHOOSE n \in names :
                          \A m \in names : Similarity(entity_name, m) <= Similarity(entity_name, n)
                maximum == Similarity(entity_name, best)
            IN FuzzyEntries(dedup, entity_name, canonical_id)
                 = {IF maximum >= dedup.similarity_threshold
                    THEN << <<canonical_id, maximum>> >>
                    ELSE <<>>}


(***************************************************************************)
(* C25: the graph resolve_coreferences builds of a batch has one node per  *)
(* batch entry, carrying the entry, and an edge between two entries        *)
(* exactly when they have the same type and the similarity of their names  *)
(* is at least the threshold (the edge weighs that similarity); so no edge *)
(* joins entries of different types and the entries of a connected         *)
(* component are of one type.                                              *)
(***************************************************************************)
C25_CoreferenceGraph ==
  coref.pc = "done"
  => LET batch == coref.entities
         G == coref.G
         n == Len(batch)
         TypeOf(i) == IF "@type" \in DOMAIN batch[i + 1] THEN <<batch[i + 1]["@type"]>> ELSE <<>>
         NameOf(i) == Get(batch[i + 1], "name", <<>>)
         Joined(i, j) == <<i, j>> \in DOMAIN G.edges \/ <<j, i>> \in DOMAIN G.edges
         Paths == UNION {[1..k -> 0..(n - 1)] : k \in 1..n}
         Connected(i, j) ==
           \E path \in Paths :
             /\ path[1] = i /\ path[Len(path)] = j
             /\ \A k \in 1..(Len(path) - 1) : Joined(path[k], path[k + 1])
     IN /\ DOMAIN G.nodes = 0..(n - 1)
        /\ \A i \in 0..(n - 1) : G.nodes[i] = batch[i + 1]
        /\ DOMAIN G.edges \subseteq {e \in (0..(n - 1)) \X (0..(n - 1)) : e[1] < e[2]}
        /\ \A i, j \in 0..(n - 1) :
             i < j => /\ <<i, j>> \in DOMAIN G.edges
                         <=> /\ TypeOf(i) = TypeOf(j)
                             /\ calculate_similarity(NameOf(i), NameOf(j))
                                  >= dedup.similarity_threshold
                      /\ <<i, j>> \in DOMAIN G.edges
                         => G.edges[<<i, j>>].weight = calculate_similarity(NameOf(i), NameOf(j))
        /\ \A i, j \in 0..(n - 1) : Joined(i, j) => TypeOf(i) = TypeOf(j)
        /\ \A i, j \in 0..(n - 1) : Connected(i, j) => TypeOf(i) = TypeOf(j)

\* C25 happens: the graph of a batch of three entries has an edge between
\* the first two, which are of one type and whose names differ, and no edge
\* to the third, which is of another type although its name is similar
\* enough to the first entry's.
C25_Witness ==
  /\ coref.pc = "done"
  /\ Len(coref.entities) = 3
  /\ <<0, 1>> \in DOMAIN coref.G.edges
  /\ coref.G.edges[<<0, 1>>].weight < Scale
  /\ coref.entities[1]["@type"] = coref.entities[2]["@type"]
  /\ <<0, 2>> \notin DOMAIN coref.G.edges
  /\ "@type" \in DOMAIN coref.entities[3]
  /\ coref.entities[1]["@type"] # coref.entities[3]["@type"]
  /\ Similarity(coref.entities[1]["name"], coref.entities[3]["name"])
       >= dedup.similarity_threshold
  /\ <<1, 2>> \notin DOMAIN coref.G.edges


(***************************************************************************)
(* C26: the registry and its indices agree: every canonical id of          *)
(* entity_registry is in name_index under the normalized canonical name    *)
(* and in type_index under the entity type, and every id an index holds is *)
(* a key of entity_registry held under the key that is its current         *)
(* normalized name, or its current type.                                   *)
(***************************************************************************)
C26_IndicesMatchRegistry ==
  /\ \A canonical_id \in DOMAIN dedup.entity_registry :
       LET signature == dedup.entity_registry[canonical_id]
           normalized == normalize_name(signature.canonical_name)
       IN /\ normalized \in DOMAIN dedup.name_index
          /\ canonical_id \in dedup.name_index[normalized]
          /\ signature.entity_type \in DOMAIN dedup.type_index
          /\ canonical_id \in dedup.type_index[signature.entity_type]
  /\ \A normalized \in DOMAIN dedup.name_index :
       \A canonical_id \in dedup.name_index[normalized] :
         /\ canonical_id \in DOMAIN dedup.entity_registry
         /\ normalize_name(dedup.entity_registry[canonical_id].canonical_name) = normalized
  /\ \A entity_type \in DOMAIN dedup.type_index :
       \A canonical_id \in dedup.type_index[entity_type] :
         /\ canonical_id \in DOMAIN dedup.entity_registry
         /\ dedup.entity_registry[canonical_id].entity_type = entity_type


(***************************************************************************)
(* C27: in every registry state add_entity calls reach, for every entity   *)
(* with a non-empty name, two add_entity calls in a row with that entity   *)
(* return the same canonical id, and the second creates no canonical       *)
(* entity and changes no alias set, no property mapping and no set of      *)
(* source documents.                                                       *)
(***************************************************************************)
C27_ReingestionIsIdempotent ==
  \A entity \in Entities :
    Get(entity, "name", <<>>) # <<>>
    => \A matches1 \in find_matches(dedup, entity) :
         LET first == add_entity(dedup, entity, matches1)
         IN \A matches2 \in find_matches(first.D, entity) :
              LET second == add_entity(first.D, entity, matches2)
                  before == first.D.entity_registry
                  after == second.D.entity_registry
              IN /\ second.ret = first.ret
                 /\ second.merged
                 /\ DOMAIN after = DOMAIN before
                 /\ \A id \in DOMAIN before :
                      /\ after[id].aliases = before[id].aliases
                      /\ after[id].properties = before[id].properties
                      /\ after[id].source_documents = before[id].source_documents


(***************************************************************************)
(* C28: membership is derivable from the log: for every canonical entity   *)
(* c, the ids of c's observations in order, and the entry of               *)
(* canonical_to_observations for c, are the from-state lists of the        *)
(* Resolve records whose to-state is c, concatenated in log order, and     *)
(* each of these ids is a key of the observation store.                    *)
(***************************************************************************)
C28_MembershipDerivableFromLog ==
  \A c \in DOMAIN tracker.canonical :
    LET log == tracker.transformations
        FromLog[i \in 0..Len(log)] ==
          IF i = 0 THEN <<>>
          ELSE FromLog[i - 1]
               \o (IF log[i]["process"] = "Resolve" /\ log[i]["toState"] = c
                   THEN log[i]["fromState"] ELSE <<>>)
        members == FromLog[Len(log)]
        observations == tracker.canonical[c].observations
    IN /\ [k \in 1..Len(observations) |-> observations[k].observation_id] = members
       /\ c \in DOMAIN tracker.canonical_to_observations
       /\ tracker.canonical_to_observations[c] = members
       /\ \A k \in 1..Len(members) : members[k] \in DOMAIN tracker.observations


(***************************************************************************)
(* C29: each observation id is linked to at most one canonical entity and  *)
(* appears at most once in that entity's list of observations (and in its  *)
(* canonical_to_observations entry).                                       *)
(***************************************************************************)
C29_ObservationLinkedOnce ==
  \A o \in DOMAIN tracker.observations :
    LET Positions(c) ==
          {k \in 1..Len(tracker.canonical[c].observations) :
             tracker.canonical[c].observations[k].observation_id = o}
        Indexed(c) ==
          IF c \in DOMAIN tracker.canonical_to_observations
          THEN {k \in 1..Len(tracker.canonical_to_observations[c]) :
                  tracker.canonical_to_observations[c][k] = o}
          ELSE {}
    IN /\ Cardinality({c \in DOMAIN tracker.canonical :
                         Positions(c) # {} \/ Indexed(c) # {}}) <= 1
       /\ \A c \in DOMAIN tracker.canonical :
            Cardinality(Positions(c)) <= 1 /\ Cardinality(Indexed(c)) <= 1


(***************************************************************************)
(* C30: export_canonical_entities emits one record per canonical entity of *)
(* the registry, whose '@id', '@type', 'name', 'aliases', 'confidence' and *)
(* 'source_documents' are the registry's id, type, canonical name, alias   *)
(* set, aggregate confidence and source documents of that entity,          *)
(* whatever keys its merged properties hold.                               *)
(***************************************************************************)
C30_ExportShowsRegistryFields ==
  LET exported == export_canonical_entities(dedup)
  IN /\ Len(exported) = Cardinality(DOMAIN dedup.entity_registry)
     /\ \A canonical_id \in DOMAIN dedup.entity_registry :
          LET signature == dedup.entity_registry[canonical_id]
          IN \E i \in 1..Len(exported) :
               /\ exported[i]["@id"] = canonical_id
               /\ \A j \in 1..Len(exported) : exported[j]["@id"] = canonical_id => j = i
               /\ exported[i]["@type"] = signature.entity_type
               /\ exported[i]["name"] = signature.canonical_name
               /\ exported[i]["aliases"] = signature.aliases
               /\ exported[i]["confidence"] = Float(signature.confidence)
               /\ exported[i]["source_documents"] = signature.source_documents

=============================================================================
